---- MODULE Spec2Model ----
(***************************************************************************)
(* Charge curve estimation of smartcharge.dev (DBInterface in the core     *)
(* server's data handler): the tables charge and charge_curve, the three   *)
(* operations getChargeCurve, setChargeCurve and chargeCalibration, and a  *)
(* client that calls them while other workers write samples.               *)
(*                                                                         *)
(* Spec is that client and the other workers on a store that starts        *)
(* without samples.  SpecRead reads stores that earlier calls have filled, *)
(* SpecWrite calls setChargeCurve with optional arguments and any numbers, *)
(* SpecConcurrent has two workers in setChargeCurve at the same time,      *)
(* SpecRace records the states of the store during one getChargeCurve,     *)
(* SpecRemove adds removeVehicle and removeLocation, and SpecFail lets a   *)
(* round trip to the store fail.                                           *)
(*                                                                         *)
(* Numbers read back from the store (medians, averages) are exact          *)
(* rationals <<n, d>> with d > 0 in lowest terms; SQL NULL / JS null is    *)
(* the empty tuple.  Nullable columns of charge_curve hold <<x>> or NULL.  *)
(***************************************************************************)
EXTENDS Integers, Sequences, FiniteSets, TLC

VARIABLES
    charge,        \* table charge: charge_id -> session row
    charge_curve,  \* table charge_curve: a set of rows
    pc,            \* the client's position: idle, avg, est (awaiting a query), done
    op,            \* the operation the client is in
    args,          \* its arguments
    dbCurve,       \* getChargeCurve: the per-level query's result
    sampleAvg,     \* getChargeCurve: the .avg of the AVG(duration) query
    sessionAvg,    \* getChargeCurve: the .avg of the session estimate query
    current,       \* getChargeCurve: the seed value
    seedFrom,      \* getChargeCurve: the branch that set the seed
    curve,         \* getChargeCurve: the returned curve
    returned,      \* setChargeCurve: the returned row; chargeCalibration: the level
    dirty,         \* history: a write committed between two queries of this call
    prior,         \* history: the duration setChargeCurve found under its key
    recorded,      \* history: key -> duration of the latest setChargeCurve call
    calls,         \* concurrent writers: writer -> its setChargeCurve call
    last,          \* history: key -> the writer and input of the latest commit
    seen,          \* history: the charge_curve tables since getChargeCurve was called
    error,         \* the error of the store round trip that failed, or "none"
    memo,          \* history: (vehicle, location) -> the curve last returned for it
    queries,       \* history: the read queries the getChargeCurve call has issued
    service_provider, \* table service_provider: the service_uuid of its rows
    references,    \* the service_uuid some vehicle or location row carries
    orphanServices, \* maintainanceWorker: the service_uuid it has marked
    now,           \* maintainanceWorker: Date.now() of the latest callback
    nextCleanup,   \* maintainanceWorker: the time the next pass is due after
    sweep,         \* maintainanceWorker: where the pass in flight stands
    selected,      \* maintainanceWorker: the selected rows not yet visited
    found,         \* history: the orphans the latest pass selected
    before,        \* history: the orphans the pass before it selected
    early,         \* history: the rows deleted that the pass before had not selected
    tpc,           \* TibberAgent.work: the await it stands at
    tnow,          \* TibberAgent.work: const now = Date.now()
    job,           \* TibberAgent.work: job.providerData
    posts,         \* history: the tibberAPI.post calls of this work call
    sent,          \* history: the scClient updates of this work call
    interval,      \* TibberAgent.work: the value returned
    service_data,  \* table service_provider: service_uuid -> service_data
    vehicle,       \* table vehicle: vehicle_uuid -> service_uuid, invalid_token
    minted,        \* teslaAPI: the tokens it has handed out or refused to
    detached,      \* the validToken and invalidToken calls nobody awaits
    mpc,           \* mutation RefreshToken: the await it stands at
    oldToken,      \* maintainToken: its argument
    result,        \* maintainToken: the token it returned
    issued,        \* history: the store updates the maintainToken call started
    stale,         \* history: vehicles left flagged when validToken ended
    qpc,           \* query Vehicles: the await it stands at
    serviceList,   \* query Vehicles: the rows getServiceProviders returned
    controlled,    \* query Vehicles: vin -> the service_uuid of the vehicle row
    mapped,        \* query Vehicles: vin -> the service_uuid it was mapped to
    idx,           \* query Vehicles: the position of s in serviceList
    token,         \* query Vehicles: the token maintainToken returned
    vehicles,      \* query Vehicles: the list it returns
    dblist,        \* invalidToken awaited by the query: the rows it updated
    asked,         \* history: the services the query refreshed the token of
    listed,        \* history: the services the query sent listVehicle for
    pushed,        \* history: the lists pushed, each with its service
    unauthorized   \* history: the services whose listVehicle failed with 401, and the token

vars == <<charge, charge_curve, pc, op, args, dbCurve, sampleAvg, sessionAvg,
          current, seedFrom, curve, returned, dirty, prior, recorded,
          calls, last, seen, error, memo, queries,
          service_provider, references, orphanServices, now, nextCleanup,
          sweep, selected, found, before, early,
          tpc, tnow, job, posts, sent, interval,
          service_data, vehicle, minted, detached, mpc, oldToken, result,
          issued, stale, qpc, serviceList, controlled, mapped, idx, token,
          vehicles, dblist, asked, listed, pushed, unauthorized>>

\* the variables of the maintenance worker
maint == <<service_provider, references, orphanServices, now, nextCleanup,
           sweep, selected, found, before, early>>

\* the variables of the Tibber agent
tibber == <<tpc, tnow, job, posts, sent, interval>>

\* the variables of the Tesla provider: the store and the detached calls,
\* the mutation RefreshToken, the query Vehicles
teslaStore == <<service_data, vehicle, minted, detached, stale>>
teslaMutation == <<mpc, oldToken, result, issued>>
teslaQuery == <<qpc, serviceList, controlled, mapped, idx, token, vehicles,
                dblist, asked, listed, pushed, unauthorized>>
tesla == <<teslaStore, teslaMutation, teslaQuery>>

\* the variables of the components around the charge curve
later == <<maint, tibber, tesla>>

\* the variables of the repeated-call specification and of the components
ext == <<memo, queries, later>>

\* the variables that only the specifications of concurrent calls and of
\* failing round trips change
aux == <<calls, last, seen, error, ext>>

(***************************************************************************)
(* Bounds and input sets                                                   *)
(***************************************************************************)
MaxRows == 2

Vehicles == {"V1", "V2"}
Locations == {"L1", "L2"}
ChargeIds == {1, 2}
SampleLevels == {5, 40}
Durations == {0, 60, 200}

Null == << >>

\* (target_level, end_level, estimate) of the sessions the store may hold
ShortOfTarget == [target_level |-> 90, end_level |-> 80, estimate |-> 30]
ZeroEstimate == [target_level |-> 90, end_level |-> 80, estimate |-> 0]
OddDivisor == [target_level |-> 90, end_level |-> 83, estimate |-> 10]
AtTarget == [target_level |-> 80, end_level |-> 80, estimate |-> 30]
PastTarget == [target_level |-> 80, end_level |-> 90, estimate |-> 15]

Session(v, l, shape) ==
    [vehicle_uuid |-> v, location_uuid |-> l, target_level |-> shape.target_level,
     end_level |-> shape.end_level, estimate |-> shape.estimate]

FirstSessions ==
    {Session("V1", "L1", s) : s \in {ShortOfTarget, ZeroEstimate, AtTarget}}

SecondSessions ==
    {Session("V1", "L1", OddDivisor), Session("V1", "L2", OddDivisor),
     Session("V2", "L1", PastTarget)}

SessionTables ==
    {(1 :> a) : a \in FirstSessions}
        \cup {(1 :> a) @@ (2 :> b) : a \in FirstSessions, b \in SecondSessions}

\* the optional arguments of setChargeCurve: an argument left out is undefined
OptInputs == {<< >>}

\* the workers that call setChargeCurve concurrently
Writers == {"w1", "w2"}

(***************************************************************************)
(* Exact arithmetic                                                        *)
(***************************************************************************)
Abs(x) == IF x < 0 THEN -x ELSE x

RECURSIVE GCD(_, _)
GCD(a, b) == IF b = 0 THEN a ELSE GCD(b, a % b)

Rat(n, d) ==
    LET s == IF d < 0 THEN -1 ELSE 1
        g == GCD(Abs(n), Abs(d))
    IN  <<(s * n) \div g, (s * d) \div g>>

RatAdd(a, b) == Rat(a[1] * b[2] + b[1] * a[2], a[2] * b[2])

RatDiv(a, k) == Rat(a[1], a[2] * k)

(***************************************************************************)
(* The queries of getChargeCurve                                           *)
(***************************************************************************)
\* the join without its a.location_uuid condition
JoinedRowsAnyLocation(vehicle_uuid, location_uuid) ==
    {b \in charge_curve :
        /\ b.charge_id \in DOMAIN charge
        /\ charge[b.charge_id].vehicle_uuid = vehicle_uuid}

\* charge a JOIN charge_curve b ON (a.charge_id = b.charge_id)
\*   WHERE a.vehicle_uuid = $1 AND a.location_uuid = $2
JoinedRows(vehicle_uuid, location_uuid) ==
    {b \in charge_curve :
        /\ b.charge_id \in DOMAIN charge
        /\ charge[b.charge_id].vehicle_uuid = vehicle_uuid
        /\ charge[b.charge_id].location_uuid = location_uuid}

\* the durations of a set of rows, ascending (WITHIN GROUP (ORDER BY duration))
RECURSIVE OrderByDuration(_)
OrderByDuration(rows) ==
    IF rows = {} THEN << >>
    ELSE LET r == CHOOSE x \in rows : \A y \in rows : x.duration <= y.duration
         IN  <<r.duration>> \o OrderByDuration(rows \ {r})

\* AVG(duration) in place of percentile_cont(0.5): the mean of the durations
RECURSIVE SumSeq(_)
SumSeq(durations) ==
    IF durations = << >> THEN 0 ELSE Head(durations) + SumSeq(Tail(durations))

PercentileMean(durations) == Rat(SumSeq(durations), Len(durations))

\* percentile_cont(0.5): the middle value, or the midpoint of the two middle values
PercentileCont(durations) ==
    LET n == Len(durations)
        lo == ((n - 1) \div 2) + 1
        hi == (n \div 2) + 1
    IN  Rat(durations[lo] + durations[hi], 2)

\* ascending levels of a set of rows (GROUP BY level ORDER BY level)
RECURSIVE OrderByLevel(_)
OrderByLevel(levels) ==
    IF levels = {} THEN << >>
    ELSE LET m == CHOOSE x \in levels : \A y \in levels : x <= y
         IN  <<m>> \o OrderByLevel(levels \ {m})

\* the first query answered from what the call before left in dbCurve
LevelQueryCached(vehicle_uuid, location_uuid) == dbCurve

\* the first query handing out one shared result array per pair, which the
\* shift() of the call before has emptied
LevelQueryDrained(vehicle_uuid, location_uuid) ==
    IF <<vehicle_uuid, location_uuid>> \in DOMAIN memo THEN << >>
    ELSE LET rows == JoinedRows(vehicle_uuid, location_uuid)
             levels == OrderByLevel({b.level : b \in rows})
         IN  [i \in 1..Len(levels) |->
                 [level |-> levels[i],
                  seconds |-> PercentileCont(
                      OrderByDuration({b \in rows : b.level = levels[i]}))]]

\* the first query: one row (level, seconds) per sampled level
LevelQuery(vehicle_uuid, location_uuid) ==
    LET rows == JoinedRows(vehicle_uuid, location_uuid)
        levels == OrderByLevel({b.level : b \in rows})
    IN  [i \in 1..Len(levels) |->
            [level |-> levels[i],
             seconds |-> PercentileCont(
                 OrderByDuration({b \in rows : b.level = levels[i]}))]]

RECURSIVE SumDuration(_)
SumDuration(rows) ==
    IF rows = {} THEN 0
    ELSE LET r == CHOOSE x \in rows : TRUE
         IN  r.duration + SumDuration(rows \ {r})

\* the second query: AVG(duration) over the same join, NULL over no rows
AvgQuery(vehicle_uuid, location_uuid) ==
    LET rows == JoinedRows(vehicle_uuid, location_uuid)
    IN  IF rows = {} THEN Null
        ELSE Rat(SumDuration(rows), Cardinality(rows))

\* the third query's filter with end_level > target_level
EstimateRowsPast(vehicle_uuid, location_uuid) ==
    {c \in DOMAIN charge :
        /\ charge[c].end_level > charge[c].target_level
        /\ charge[c].vehicle_uuid = vehicle_uuid
        /\ charge[c].location_uuid = location_uuid}

\* the sessions the third query averages over
EstimateRows(vehicle_uuid, location_uuid) ==
    {c \in DOMAIN charge :
        /\ charge[c].end_level < charge[c].target_level
        /\ charge[c].vehicle_uuid = vehicle_uuid
        /\ charge[c].location_uuid = location_uuid}

\* 60.0 * estimate / (target_level - end_level)
SecondsPerLevel(a) == Rat(60 * a.estimate, a.target_level - a.end_level)

RECURSIVE SumSecondsPerLevel(_)
SumSecondsPerLevel(ids) ==
    IF ids = {} THEN <<0, 1>>
    ELSE LET c == CHOOSE x \in ids : TRUE
         IN  RatAdd(SecondsPerLevel(charge[c]), SumSecondsPerLevel(ids \ {c}))

\* the third query: AVG over the sessions short of their target, NULL over none
EstimateQuery(vehicle_uuid, location_uuid) ==
    LET ids == EstimateRows(vehicle_uuid, location_uuid)
    IN  IF ids = {} THEN Null
        ELSE RatDiv(SumSecondsPerLevel(ids), Cardinality(ids))

(***************************************************************************)
(* getChargeCurve after its queries                                        *)
(***************************************************************************)
\* the chain stopping at the first answer, null and 0 included
TruthyAny(x) == TRUE

\* a || b on a number or null: 0 and null are falsy
Truthy(x) == x # Null /\ x[1] # 0

MaxLevel == 100

DefaultSeconds == 20 * 60

\* the while loop with level > instead of level >=
RECURSIVE ShiftDueStrict(_, _, _)
ShiftDueStrict(queue, level, cur) ==
    IF Len(queue) > 0 /\ level > queue[1].level
    THEN ShiftDueStrict(Tail(queue), level, queue[1].seconds)
    ELSE <<queue, cur>>

\* while (dbCurve.length > 0 && level >= dbCurve[0].level) current = dbCurve.shift().seconds
RECURSIVE ShiftDue(_, _, _)
ShiftDue(queue, level, cur) ==
    IF Len(queue) > 0 /\ level >= queue[1].level
    THEN ShiftDue(Tail(queue), level, queue[1].seconds)
    ELSE <<queue, cur>>

\* for (level = lo; level <= hi; ++level) { ...; curve[level] = current }:
\* the loop over lo..hi is the loop over its lower half followed by the loop
\* over its upper half; the result is <<curve, dbCurve, current>> after it
RECURSIVE Walk(_, _, _, _)
Walk(lo, hi, queue, cur) ==
    IF lo = hi
    THEN LET s == ShiftDue(queue, lo, cur)
         IN  <<(lo :> s[2]), s[1], s[2]>>
    ELSE LET mid == (lo + hi) \div 2
             a == Walk(lo, mid, queue, cur)
             b == Walk(mid + 1, hi, a[2], a[3])
         IN  <<a[1] @@ b[1], b[2], b[3]>>

\* the walk with level < 100 instead of level <= 100
BuildCurveShort(queue, seed) == Walk(0, MaxLevel - 1, queue, seed)[1]

\* the curve from the seed and the entries left in dbCurve
BuildCurve(queue, seed) == Walk(0, MaxLevel, queue, seed)[1]

(***************************************************************************)
(* setChargeCurve and chargeCalibration                                    *)
(***************************************************************************)
Columns ==
    {"vehicle_uuid", "charge_id", "level", "duration",
     "outside_deci_temperature", "energy_used", "energy_added"}

\* the object handed to the INSERT: an argument that is undefined names no column
Input(vehicle_uuid, charge_id, level, duration, optional) ==
    [vehicle_uuid |-> vehicle_uuid, charge_id |-> charge_id,
     level |-> level, duration |-> duration] @@ optional

\* the row proposed for insertion: a column the INSERT does not name is NULL
Excluded(input) ==
    [col \in Columns |-> IF col \in DOMAIN input THEN input[col] ELSE Null]

\* the rows the proposed row conflicts with
Conflict(table, input) ==
    {r \in table :
        /\ r.vehicle_uuid = input.vehicle_uuid
        /\ r.level = input.level
        /\ r.charge_id = input.charge_id}

\* the statement with ON CONFLICT DO NOTHING
UpsertDoNothing(table, input) ==
    IF Conflict(table, input) = {} THEN table \cup {Excluded(input)} ELSE table

\* the statement with duration = charge_curve.duration + EXCLUDED.duration
UpsertAccumulate(table, input) ==
    LET e == Excluded(input)
        hit == Conflict(table, input)
    IN  IF hit = {} THEN table \cup {e}
        ELSE (table \ hit) \cup
             {[r EXCEPT !.duration = r.duration + e.duration] : r \in hit}

\* the statement without its ON CONFLICT clause, on a table without the key
UpsertInsertOnly(table, input) == table \cup {Excluded(input)}

\* a DELETE of the rows of the vehicle's session followed by the INSERT
UpsertPerSession(table, input) ==
    (table \ {r \in table : /\ r.vehicle_uuid = input.vehicle_uuid
                             /\ r.charge_id = input.charge_id})
        \cup {Excluded(input)}

\* the statement without the two energy columns in its SET list
UpsertKeepEnergy(table, input) ==
    LET e == Excluded(input)
        hit == Conflict(table, input)
    IN  IF hit = {} THEN table \cup {e}
        ELSE (table \ hit) \cup
             {[r EXCEPT !.outside_deci_temperature = e.outside_deci_temperature,
                        !.duration = e.duration] : r \in hit}

\* INSERT ... ON CONFLICT (vehicle_uuid, level, charge_id) DO UPDATE SET ...
Upsert(table, input) ==
    LET e == Excluded(input)
        hit == Conflict(table, input)
    IN  IF hit = {} THEN table \cup {e}
        ELSE (table \ hit) \cup
             {[r EXCEPT !.outside_deci_temperature = e.outside_deci_temperature,
                        !.duration = e.duration,
                        !.energy_used = e.energy_used,
                        !.energy_added = e.energy_added] : r \in hit}

\* RETURNING *
Returning(table, input) == CHOOSE r \in Conflict(table, input) : TRUE

Max(S) == CHOOSE x \in S : \A y \in S : y <= x

\* the query without its a.location_uuid condition
CalibrationAnyLocation(vehicle_uuid, charge_id) ==
    LET rows == {b \in charge_curve :
                    /\ b.charge_id \in DOMAIN charge
                    /\ charge[b.charge_id].vehicle_uuid = vehicle_uuid}
    IN  IF rows = {} THEN Null
        ELSE <<CHOOSE x \in {b.level : b \in rows} :
                 \A y \in {b.level : b \in rows} : y <= x>>

\* SELECT MAX(level) ... WHERE a.vehicle_uuid = $1 AND a.location_uuid =
\*   (SELECT location_uuid FROM charge c WHERE c.charge_id = $2)
CalibrationQuery(vehicle_uuid, charge_id) ==
    LET location == IF charge_id \in DOMAIN charge
                    THEN <<charge[charge_id].location_uuid>> ELSE Null
        rows == {b \in charge_curve :
                    /\ b.charge_id \in DOMAIN charge
                    /\ charge[b.charge_id].vehicle_uuid = vehicle_uuid
                    /\ location # Null
                    /\ charge[b.charge_id].location_uuid = location[1]}
    IN  IF rows = {} THEN Null ELSE <<Max({b.level : b \in rows})>>

(***************************************************************************)
(* The state machine                                                       *)
(***************************************************************************)
\* a writer that is in no call
IdleCall == [pc |-> "idle", input |-> Null, row |-> Null]

\* the service providers registered
Providers == {"S1", "S2"}

\* let nextCleanup = 0; let orphanServices = {}; before the first callback
InitMaint ==
    /\ service_provider = Providers
    /\ references = {}
    /\ orphanServices = {}
    /\ now = 0
    /\ nextCleanup = 0
    /\ sweep = "idle"
    /\ selected = << >>
    /\ found = {}
    /\ before = {}
    /\ early = {}

\* no work call in flight
InitTibber ==
    /\ tpc = "idle"
    /\ tnow = 0
    /\ job = [invalidToken |-> FALSE, currency |-> "SEK"]
    /\ posts = 0
    /\ sent = << >>
    /\ interval = 60

\* {access_token, refresh_token} as teslaAPI hands them out; 0 is undefined
Token(n) == [access_token |-> n, refresh_token |-> n]

\* a service with a token and no flag
Service(n) == [token |-> <<Token(n)>>, invalid_token |-> FALSE]

\* no query and no mutation in flight, nothing detached
InitTeslaCalls ==
    /\ minted = 2
    /\ detached = {}
    /\ mpc = "idle"
    /\ oldToken = Null
    /\ result = Null
    /\ issued = {}
    /\ stale = {}
    /\ qpc = "idle"
    /\ serviceList = << >>
    /\ controlled = << >>
    /\ mapped = << >>
    /\ idx = 0
    /\ token = Null
    /\ vehicles = << >>
    /\ dblist = << >>
    /\ asked = {}
    /\ listed = {}
    /\ pushed = << >>
    /\ unauthorized = {}

\* two services with a token each, a vehicle on each
InitTeslaOne ==
    /\ InitTeslaCalls
    /\ service_data = ("S1" :> Service(1)) @@ ("S2" :> Service(2))
    /\ vehicle = ("V1" :> [service_uuid |-> "S1", invalid_token |-> FALSE])
                   @@ ("V2" :> [service_uuid |-> "S2", invalid_token |-> FALSE])

\* no writer has called, nothing is remembered
InitHistory ==
    /\ calls = [w \in Writers |-> IdleCall]
    /\ last = << >>
    /\ seen = {}
    /\ error = "none"
    /\ memo = << >>
    /\ queries = 0

InitAux ==
    /\ InitMaint
    /\ InitTibber
    /\ InitTeslaOne
    /\ InitHistory

Init ==
    /\ InitAux
    /\ charge \in SessionTables
    /\ charge_curve = {}
    /\ pc = "idle"
    /\ op = "none"
    /\ args = << >>
    /\ dbCurve = << >>
    /\ sampleAvg = Null
    /\ sessionAvg = Null
    /\ current = Null
    /\ seedFrom = "none"
    /\ curve = << >>
    /\ returned = Null
    /\ dirty = FALSE
    /\ prior = Null
    /\ recorded = << >>

\* assert(current !== undefined && current !== null)
AssertSeed(seed) == seed # Null

\* the code after the last query: the assertion, the walk and the return
Finish(queue, seed, from) ==
    /\ current' = seed
    /\ seedFrom' = from
    /\ IF AssertSeed(seed)
       THEN pc' = "done" /\ curve' = BuildCurve(queue, seed)
       ELSE pc' = "failed" /\ curve' = << >>

\* getChargeCurve up to its first await and what follows the per-level query
GetChargeCurve(vehicle_uuid, location_uuid) ==
    /\ pc = "idle"
    /\ op' = "getChargeCurve"
    /\ args' = <<vehicle_uuid, location_uuid>>
    /\ dbCurve' = LevelQuery(vehicle_uuid, location_uuid)
    /\ dirty' = FALSE
    /\ IF Len(dbCurve') > 0
       THEN Finish(Tail(dbCurve'), dbCurve'[1].seconds, "level")
       ELSE pc' = "avg" /\ UNCHANGED <<current, seedFrom, curve>>
    /\ UNCHANGED <<charge, charge_curve, sampleAvg, sessionAvg, returned, prior,
                   recorded>>

\* the AVG(duration) query and the first ||
GetChargeCurveAvg ==
    /\ pc = "avg"
    /\ sampleAvg' = AvgQuery(args[1], args[2])
    /\ IF Truthy(sampleAvg')
       THEN Finish(dbCurve, sampleAvg', "avg")
       ELSE pc' = "est" /\ UNCHANGED <<current, seedFrom, curve>>
    /\ UNCHANGED <<charge, charge_curve, op, args, dbCurve, sessionAvg, returned,
                   dirty, prior, recorded>>

\* the session estimate query, the second || and the default
GetChargeCurveEstimate ==
    /\ pc = "est"
    /\ sessionAvg' = EstimateQuery(args[1], args[2])
    /\ IF Truthy(sessionAvg')
       THEN Finish(dbCurve, sessionAvg', "estimate")
       ELSE Finish(dbCurve, <<DefaultSeconds, 1>>, "default")
    /\ UNCHANGED <<charge, charge_curve, op, args, dbCurve, sampleAvg, returned,
                   dirty, prior, recorded>>

Key(input) == <<input.vehicle_uuid, input.charge_id, input.level>>

PriorDuration(table, input) ==
    IF Conflict(table, input) = {} THEN Null
    ELSE <<(CHOOSE r \in Conflict(table, input) : TRUE).duration>>

\* the store has room for the row (the bound of the model)
Room(input) ==
    Conflict(charge_curve, input) # {} \/ Cardinality(charge_curve) < MaxRows

\* setChargeCurve called by the client
SetChargeCurve(vehicle_uuid, charge_id, level, duration, optional) ==
    LET input == Input(vehicle_uuid, charge_id, level, duration, optional)
    IN  /\ pc = "idle"
        /\ Room(input)
        /\ charge_curve' = Upsert(charge_curve, input)
        /\ returned' = Returning(charge_curve', input)
        /\ prior' = PriorDuration(charge_curve, input)
        /\ recorded' = (Key(input) :> duration) @@ recorded
        /\ pc' = "done"
        /\ op' = "setChargeCurve"
        /\ args' = input
        /\ UNCHANGED <<charge, dbCurve, sampleAvg, sessionAvg, current, seedFrom,
                       curve, dirty>>

\* setChargeCurve called by another worker, also while the client awaits a query
WorkerSetChargeCurve(vehicle_uuid, charge_id, level, duration, optional) ==
    LET input == Input(vehicle_uuid, charge_id, level, duration, optional)
    IN  /\ pc \in {"idle", "avg", "est"}
        /\ Room(input)
        /\ charge_curve' = Upsert(charge_curve, input)
        /\ recorded' = (Key(input) :> duration) @@ recorded
        /\ dirty' = (pc # "idle")
        /\ UNCHANGED <<charge, pc, op, args, dbCurve, sampleAvg, sessionAvg,
                       current, seedFrom, curve, returned, prior>>

\* chargeCalibration called by the client
ChargeCalibration(vehicle_uuid, charge_id) ==
    /\ pc = "idle"
    /\ returned' = CalibrationQuery(vehicle_uuid, charge_id)
    /\ pc' = "done"
    /\ op' = "chargeCalibration"
    /\ args' = <<vehicle_uuid, charge_id>>
    /\ UNCHANGED <<charge, charge_curve, dbCurve, sampleAvg, sessionAvg, current,
                   seedFrom, curve, dirty, prior, recorded>>

\* the caller takes the result
Return ==
    /\ pc = "done"
    /\ pc' = "idle"
    /\ op' = "none"
    /\ args' = << >>
    /\ dbCurve' = << >>
    /\ sampleAvg' = Null
    /\ sessionAvg' = Null
    /\ current' = Null
    /\ seedFrom' = "none"
    /\ curve' = << >>
    /\ returned' = Null
    /\ dirty' = FALSE
    /\ prior' = Null
    /\ UNCHANGED <<charge, charge_curve, recorded>>

Next ==
    \/ \E v \in Vehicles, l \in Locations :
          GetChargeCurve(v, l) /\ UNCHANGED aux
    \/ GetChargeCurveAvg /\ UNCHANGED aux
    \/ GetChargeCurveEstimate /\ UNCHANGED aux
    \/ \E v \in Vehicles, c \in ChargeIds, l \in SampleLevels, d \in Durations,
          o \in OptInputs : SetChargeCurve(v, c, l, d, o) /\ UNCHANGED aux
    \/ \E v \in Vehicles, c \in ChargeIds, l \in SampleLevels, d \in Durations,
          o \in OptInputs : WorkerSetChargeCurve(v, c, l, d, o) /\ UNCHANGED aux
    \/ \E v \in Vehicles, c \in ChargeIds :
          ChargeCalibration(v, c) /\ UNCHANGED aux
    \/ Return /\ UNCHANGED aux

Spec == Init /\ [][Next]_vars

(***************************************************************************)
(* Reading a store that earlier calls have filled                          *)
(***************************************************************************)
MaxSamples == 3

StoredLevels == {20, 50}
StoredDurations == {10, 20, 1000}

\* four sessions: three of V1 at L1, one of V2 at L2
StoredSessions ==
    (1 :> Session("V1", "L1", ShortOfTarget))
        @@ (2 :> Session("V1", "L1", OddDivisor))
        @@ (3 :> Session("V1", "L1", AtTarget))
        @@ (4 :> Session("V2", "L2", ShortOfTarget))

\* the rows setChargeCurve leaves when each vehicle records on its own sessions
StoredRows ==
    {Excluded(Input(StoredSessions[c].vehicle_uuid, c, l, d, << >>)) :
        c \in DOMAIN StoredSessions, l \in StoredLevels, d \in StoredDurations}

\* the tables these calls can leave: at most one row under a key
StoredTables ==
    {t \in SUBSET StoredRows :
        /\ Cardinality(t) <= MaxSamples
        /\ \A r1 \in t, r2 \in t : Key(r1) = Key(r2) => r1 = r2}

InitStored ==
    /\ InitAux
    /\ charge = StoredSessions
    /\ charge_curve \in StoredTables
    /\ pc = "idle"
    /\ op = "none"
    /\ args = << >>
    /\ dbCurve = << >>
    /\ sampleAvg = Null
    /\ sessionAvg = Null
    /\ current = Null
    /\ seedFrom = "none"
    /\ curve = << >>
    /\ returned = Null
    /\ dirty = FALSE
    /\ prior = Null
    /\ recorded = << >>

NextRead ==
    \/ \E v \in Vehicles, l \in Locations :
          GetChargeCurve(v, l) /\ UNCHANGED aux
    \/ GetChargeCurveAvg /\ UNCHANGED aux
    \/ GetChargeCurveEstimate /\ UNCHANGED aux
    \/ \E v \in Vehicles, c \in DOMAIN StoredSessions :
          ChargeCalibration(v, c) /\ UNCHANGED aux
    \/ Return /\ UNCHANGED aux

SpecRead == InitStored /\ [][NextRead]_vars

(***************************************************************************)
(* setChargeCurve with its optional arguments and with any numbers         *)
(***************************************************************************)
WriteLevels == {-1, 5, 101}
WriteDurations == {-1, 60}

\* temperature alone, or temperature and both energies, or none of them
OptionalArgs ==
    {<< >>,
     [outside_deci_temperature |-> <<120>>],
     [outside_deci_temperature |-> <<130>>, energy_used |-> <<7>>,
      energy_added |-> <<9>>]}

\* the sessions stored, no sample, no call in flight
InitSessions ==
    /\ charge = StoredSessions
    /\ charge_curve = {}
    /\ pc = "idle"
    /\ op = "none"
    /\ args = << >>
    /\ dbCurve = << >>
    /\ sampleAvg = Null
    /\ sessionAvg = Null
    /\ current = Null
    /\ seedFrom = "none"
    /\ curve = << >>
    /\ returned = Null
    /\ dirty = FALSE
    /\ prior = Null
    /\ recorded = << >>

InitWrite ==
    /\ InitAux
    /\ InitSessions

NextWrite ==
    \/ \E c \in ChargeIds, l \in WriteLevels, d \in WriteDurations,
          o \in OptionalArgs :
          SetChargeCurve("V1", c, l, d, o) /\ UNCHANGED aux
    \/ Return /\ UNCHANGED aux

SpecWrite == InitWrite /\ [][NextWrite]_vars

(***************************************************************************)
(* Workers that call setChargeCurve at the same time                       *)
(***************************************************************************)
\* the variables of the client, which makes no call here
client ==
    <<pc, op, args, dbCurve, sampleAvg, sessionAvg, current, seedFrom, curve,
      returned, dirty, prior, recorded>>

\* the variables of the charge curve functions and of their histories
core == <<charge, charge_curve, client, calls, last, seen, error, memo, queries>>

ConcurrentDurations == {60, 200}

\* a worker builds its input object and sends the statement
SetChargeCurveSend(w, vehicle_uuid, charge_id, level, duration, optional) ==
    /\ calls[w].pc = "idle"
    /\ calls' = [calls EXCEPT ![w] =
                    [pc |-> "sent",
                     input |-> Input(vehicle_uuid, charge_id, level, duration,
                                     optional),
                     row |-> Null]]
    /\ UNCHANGED <<charge, charge_curve, last>>

\* the store executes a worker's statement: one statement, one atomic change
SetChargeCurveCommit(w) ==
    /\ calls[w].pc = "sent"
    /\ charge_curve' = Upsert(charge_curve, calls[w].input)
    /\ calls' = [calls EXCEPT ![w] =
                    [pc |-> "done",
                     input |-> calls[w].input,
                     row |-> Returning(charge_curve', calls[w].input)]]
    /\ last' = (Key(calls[w].input) :> [writer |-> w, input |-> calls[w].input])
                   @@ last
    /\ UNCHANGED charge

\* the worker's caller takes the returned row
SetChargeCurveReturn(w) ==
    /\ calls[w].pc = "done"
    /\ calls' = [calls EXCEPT ![w] = IdleCall]
    /\ UNCHANGED <<charge, charge_curve, last>>

NextConcurrent ==
    \/ \E w \in Writers, c \in ChargeIds, d \in ConcurrentDurations,
          o \in OptionalArgs :
          SetChargeCurveSend(w, "V1", c, 5, d, o) /\ UNCHANGED <<client, seen, error, ext>>
    \/ \E w \in Writers :
          SetChargeCurveCommit(w) /\ UNCHANGED <<client, seen, error, ext>>
    \/ \E w \in Writers :
          SetChargeCurveReturn(w) /\ UNCHANGED <<client, seen, error, ext>>

SpecConcurrent == InitWrite /\ [][NextConcurrent]_vars

(***************************************************************************)
(* getChargeCurve on one state of the store                                *)
(***************************************************************************)
\* the join of the queries on the tables `sessions` and `samples`
JoinedRowsOn(sessions, samples, vehicle_uuid, location_uuid) ==
    {b \in samples :
        /\ b.charge_id \in DOMAIN sessions
        /\ sessions[b.charge_id].vehicle_uuid = vehicle_uuid
        /\ sessions[b.charge_id].location_uuid = location_uuid}

\* the per-level query over joined rows
LevelQueryOn(rows) ==
    LET levels == OrderByLevel({b.level : b \in rows})
    IN  [i \in 1..Len(levels) |->
            [level |-> levels[i],
             seconds |-> PercentileCont(
                 OrderByDuration({b \in rows : b.level = levels[i]}))]]

\* the AVG(duration) query over joined rows
AvgQueryOn(rows) ==
    IF rows = {} THEN Null ELSE Rat(SumDuration(rows), Cardinality(rows))

RECURSIVE SumSecondsPerLevelOn(_, _)
SumSecondsPerLevelOn(sessions, ids) ==
    IF ids = {} THEN <<0, 1>>
    ELSE LET c == CHOOSE x \in ids : TRUE
         IN  RatAdd(SecondsPerLevel(sessions[c]),
                    SumSecondsPerLevelOn(sessions, ids \ {c}))

\* the session estimate query on the table `sessions`
EstimateQueryOn(sessions, vehicle_uuid, location_uuid) ==
    LET ids == {c \in DOMAIN sessions :
                   /\ sessions[c].end_level < sessions[c].target_level
                   /\ sessions[c].vehicle_uuid = vehicle_uuid
                   /\ sessions[c].location_uuid = location_uuid}
    IN  IF ids = {} THEN Null
        ELSE RatDiv(SumSecondsPerLevelOn(sessions, ids), Cardinality(ids))

\* the curve getChargeCurve returns when all its queries read the tables
\* `sessions` and `samples`
CurveOn(sessions, samples, vehicle_uuid, location_uuid) ==
    LET rows == JoinedRowsOn(sessions, samples, vehicle_uuid, location_uuid)
        queue == LevelQueryOn(rows)
        avg == AvgQueryOn(rows)
        est == EstimateQueryOn(sessions, vehicle_uuid, location_uuid)
    IN  IF Len(queue) > 0 THEN BuildCurve(Tail(queue), queue[1].seconds)
        ELSE IF Truthy(avg) THEN BuildCurve(<< >>, avg)
        ELSE IF Truthy(est) THEN BuildCurve(<< >>, est)
        ELSE BuildCurve(<< >>, <<DefaultSeconds, 1>>)

(***************************************************************************)
(* Writes that commit while getChargeCurve runs                            *)
(***************************************************************************)
RaceDurations == {60, 200}

NextRace ==
    \/ \E v \in Vehicles, l \in Locations :
          /\ GetChargeCurve(v, l)
          /\ seen' = {charge_curve}
          /\ UNCHANGED <<calls, last, error, ext>>
    \/ GetChargeCurveAvg /\ UNCHANGED aux
    \/ GetChargeCurveEstimate /\ UNCHANGED aux
    \/ \E l \in SampleLevels, d \in RaceDurations :
          /\ WorkerSetChargeCurve("V1", 1, l, d, << >>)
          /\ seen' = IF pc = "idle" THEN seen ELSE seen \cup {charge_curve'}
          /\ UNCHANGED <<calls, last, error, ext>>
    \/ Return /\ seen' = {} /\ UNCHANGED <<calls, last, error, ext>>

SpecRace == Init /\ [][NextRace]_vars

(***************************************************************************)
(* removeVehicle and removeLocation                                        *)
(***************************************************************************)
\* the statements without DELETE FROM charge_curve WHERE vehicle_uuid = $1
RemoveVehicleSessionsOnly(vehicle_uuid) ==
    /\ pc = "idle"
    /\ charge' = [c \in {x \in DOMAIN charge :
                             charge[x].vehicle_uuid # vehicle_uuid} |-> charge[c]]
    /\ pc' = "done"
    /\ op' = "removeVehicle"
    /\ args' = <<vehicle_uuid>>
    /\ UNCHANGED <<charge_curve, dbCurve, sampleAvg, sessionAvg, current,
                   seedFrom, curve, returned, dirty, prior, recorded>>

\* DELETE FROM charge_curve WHERE vehicle_uuid = $1; ...
\* DELETE FROM charge WHERE vehicle_uuid = $1; ... in one query
RemoveVehicle(vehicle_uuid) ==
    /\ pc = "idle"
    /\ charge_curve' = {r \in charge_curve : r.vehicle_uuid # vehicle_uuid}
    /\ charge' = [c \in {x \in DOMAIN charge :
                             charge[x].vehicle_uuid # vehicle_uuid} |-> charge[c]]
    /\ pc' = "done"
    /\ op' = "removeVehicle"
    /\ args' = <<vehicle_uuid>>
    /\ UNCHANGED <<dbCurve, sampleAvg, sessionAvg, current, seedFrom, curve,
                   returned, dirty, prior, recorded>>

\* DELETE FROM charge_curve USING charge WHERE charge_curve.charge_id =
\*   charge.charge_id AND charge.location_uuid = $1; ...
\* DELETE FROM charge WHERE location_uuid = $1; ... in one query
RemoveLocation(location_uuid) ==
    /\ pc = "idle"
    /\ charge_curve' =
           {r \in charge_curve :
               ~(/\ r.charge_id \in DOMAIN charge
                 /\ charge[r.charge_id].location_uuid = location_uuid)}
    /\ charge' = [c \in {x \in DOMAIN charge :
                             charge[x].location_uuid # location_uuid} |-> charge[c]]
    /\ pc' = "done"
    /\ op' = "removeLocation"
    /\ args' = <<location_uuid>>
    /\ UNCHANGED <<dbCurve, sampleAvg, sessionAvg, current, seedFrom, curve,
                   returned, dirty, prior, recorded>>

NextRemove ==
    \/ \E v \in Vehicles, l \in Locations :
          GetChargeCurve(v, l) /\ UNCHANGED aux
    \/ GetChargeCurveAvg /\ UNCHANGED aux
    \/ GetChargeCurveEstimate /\ UNCHANGED aux
    \/ \E v \in Vehicles, c \in DOMAIN StoredSessions :
          ChargeCalibration(v, c) /\ UNCHANGED aux
    \/ \E v \in Vehicles : RemoveVehicle(v) /\ UNCHANGED aux
    \/ \E l \in Locations : RemoveLocation(l) /\ UNCHANGED aux
    \/ Return /\ UNCHANGED aux

SpecRemove == InitStored /\ [][NextRemove]_vars

(***************************************************************************)
(* A store round trip that fails                                           *)
(***************************************************************************)
\* the awaited query rejects and nothing catches it: the call ends there,
\* with a default curve instead
RejectToDefault ==
    /\ pc' = "done"
    /\ curve' = BuildCurve(<< >>, <<DefaultSeconds, 1>>)
    /\ UNCHANGED <<charge, charge_curve, dbCurve, sampleAvg, sessionAvg, current,
                   seedFrom, returned, dirty, prior, recorded>>

\* the awaited query rejects and nothing catches it: the call ends there and
\* its promise rejects
Reject ==
    /\ pc' = "rejected"
    /\ UNCHANGED <<charge, charge_curve, dbCurve, sampleAvg, sessionAvg, current,
                   seedFrom, curve, returned, dirty, prior, recorded>>

\* getChargeCurve when its per-level query fails
GetChargeCurveFails(vehicle_uuid, location_uuid) ==
    /\ pc = "idle"
    /\ op' = "getChargeCurve"
    /\ args' = <<vehicle_uuid, location_uuid>>
    /\ Reject

\* getChargeCurve when its AVG(duration) query fails
GetChargeCurveAvgFails ==
    /\ pc = "avg"
    /\ UNCHANGED <<op, args>>
    /\ Reject

\* getChargeCurve when its session estimate query fails
GetChargeCurveEstimateFails ==
    /\ pc = "est"
    /\ UNCHANGED <<op, args>>
    /\ Reject

\* setChargeCurve when its statement fails: nothing is written
SetChargeCurveFails(vehicle_uuid, charge_id, level, duration, optional) ==
    /\ pc = "idle"
    /\ op' = "setChargeCurve"
    /\ args' = Input(vehicle_uuid, charge_id, level, duration, optional)
    /\ Reject

\* chargeCalibration when its query fails
ChargeCalibrationFails(vehicle_uuid, charge_id) ==
    /\ pc = "idle"
    /\ op' = "chargeCalibration"
    /\ args' = <<vehicle_uuid, charge_id>>
    /\ Reject

\* the caller takes the error
Throw ==
    /\ pc = "rejected"
    /\ pc' = "idle"
    /\ op' = "none"
    /\ args' = << >>
    /\ dbCurve' = << >>
    /\ sampleAvg' = Null
    /\ sessionAvg' = Null
    /\ current' = Null
    /\ seedFrom' = "none"
    /\ curve' = << >>
    /\ returned' = Null
    /\ dirty' = FALSE
    /\ prior' = Null
    /\ UNCHANGED <<charge, charge_curve, recorded>>

\* the store fails the round trip of this step
StoreUnavailable == error' = "StoreUnavailable" /\ UNCHANGED <<calls, last, seen, ext>>

NextFail ==
    \/ \E v \in Vehicles, l \in Locations :
          GetChargeCurve(v, l) /\ UNCHANGED aux
    \/ GetChargeCurveAvg /\ UNCHANGED aux
    \/ GetChargeCurveEstimate /\ UNCHANGED aux
    \/ \E l \in StoredLevels, d \in StoredDurations :
          SetChargeCurve("V1", 1, l, d, << >>) /\ UNCHANGED aux
    \/ \E v \in Vehicles, c \in DOMAIN StoredSessions :
          ChargeCalibration(v, c) /\ UNCHANGED aux
    \/ Return /\ UNCHANGED aux
    \/ \E v \in Vehicles, l \in Locations :
          GetChargeCurveFails(v, l) /\ StoreUnavailable
    \/ GetChargeCurveAvgFails /\ StoreUnavailable
    \/ GetChargeCurveEstimateFails /\ StoreUnavailable
    \/ \E l \in StoredLevels, d \in StoredDurations :
          SetChargeCurveFails("V1", 1, l, d, << >>) /\ StoreUnavailable
    \/ \E v \in Vehicles, c \in DOMAIN StoredSessions :
          ChargeCalibrationFails(v, c) /\ StoreUnavailable
    \/ Throw /\ error' = "none" /\ UNCHANGED <<calls, last, seen, ext>>

SpecFail == InitStored /\ [][NextFail]_vars

(***************************************************************************)
(* Properties                                                              *)
(***************************************************************************)
CurveDone == pc = "done" /\ op = "getChargeCurve"

IsNumber(x) == x # Null /\ Len(x) = 2 /\ x[2] > 0

\* the sessions of a vehicle at a location
SessionsOf(vehicle_uuid, location_uuid) ==
    {c \in DOMAIN charge :
        /\ charge[c].vehicle_uuid = vehicle_uuid
        /\ charge[c].location_uuid = location_uuid}

\* the samples of a vehicle at a location: the rows of its sessions there
SamplesOf(vehicle_uuid, location_uuid) ==
    {b \in charge_curve : b.charge_id \in SessionsOf(vehicle_uuid, location_uuid)}

\* C1 (totality): in every store state and for every vehicle and location the
\* assertion of getChargeCurve never fails, and the curve it returns is defined
\* on exactly the levels 0..100, every entry a number.
Totality ==
    /\ pc # "failed"
    /\ CurveDone =>
           /\ DOMAIN curve = 0..100
           /\ \A level \in 0..100 : IsNumber(curve[level])

\* a curve returned for a pair with no sample and no session
TotalityWitness ==
    /\ CurveDone
    /\ SamplesOf(args[1], args[2]) = {}
    /\ SessionsOf(args[1], args[2]) = {}
    /\ DOMAIN curve = 0..100

Min(S) == CHOOSE x \in S : \A y \in S : x <= y

\* the median of the samples of a pair at one level
MedianAt(vehicle_uuid, location_uuid, level) ==
    PercentileCont(OrderByDuration(
        {b \in SamplesOf(vehicle_uuid, location_uuid) : b.level = level}))

\* the level whose value a step curve holds at `level`: the greatest of
\* `levels` at or below it, the lowest of `levels` when there is none
AdoptedLevel(levels, level) ==
    IF \E s \in levels : s <= level
    THEN Max({s \in levels : s <= level})
    ELSE Min(levels)

\* C2 (step adoption): when the pair has samples as the call reads them, the
\* curve at every level 0..100 is the median of the greatest sampled level at
\* or below it, and below the lowest sampled level the median of that level.
StepAdoption ==
    (CurveDone /\ ~dirty /\ SamplesOf(args[1], args[2]) # {}) =>
        LET levels == {b.level : b \in SamplesOf(args[1], args[2])}
        IN  \A level \in 0..100 :
                curve[level] =
                    MedianAt(args[1], args[2], AdoptedLevel(levels, level))

\* samples at 5 and 40 with different medians: the curve holds the first up
\* to 39 (also below 5) and the second from 40 on
StepAdoptionWitness ==
    /\ CurveDone
    /\ {b.level : b \in SamplesOf(args[1], args[2])} = {5, 40}
    /\ curve[0] = MedianAt(args[1], args[2], 5)
    /\ curve[39] = MedianAt(args[1], args[2], 5)
    /\ curve[40] = MedianAt(args[1], args[2], 40)
    /\ curve[100] = MedianAt(args[1], args[2], 40)
    /\ curve[39] # curve[40]

CalibrationDone == pc = "done" /\ op = "chargeCalibration"

\* the levels recorded by calls with this vehicle on this session
RecordedLevels(vehicle_uuid, charge_id) ==
    {k[3] : k \in {x \in DOMAIN recorded :
                      x[1] = vehicle_uuid /\ x[2] = charge_id}}

\* the pair had no data, and every call since that bears on it was made with
\* this vehicle on this one session of the pair
OnlySession(vehicle_uuid, location_uuid, charge_id) ==
    /\ charge_id \in SessionsOf(vehicle_uuid, location_uuid)
    /\ RecordedLevels(vehicle_uuid, charge_id) # {}
    /\ \A k \in DOMAIN recorded :
           k[2] \in SessionsOf(vehicle_uuid, location_uuid) =>
               k[1] = vehicle_uuid /\ k[2] = charge_id

\* C3 (write then read): after calls of setChargeCurve on one session of a
\* vehicle at a location that had no data, a getChargeCurve that no write
\* interleaves with returns the step curve of the latest duration recorded at
\* each level, and chargeCalibration for that session returns the highest
\* level recorded.
WriteThenRead ==
    /\ (CurveDone /\ ~dirty) =>
           \A c \in ChargeIds :
               OnlySession(args[1], args[2], c) =>
                   \A level \in 0..100 :
                       curve[level] =
                           <<recorded[<<args[1], c,
                               AdoptedLevel(RecordedLevels(args[1], c), level)>>], 1>>
    /\ (/\ CalibrationDone
        /\ args[2] \in DOMAIN charge
        /\ OnlySession(args[1], charge[args[2]].location_uuid, args[2])) =>
           returned = <<Max(RecordedLevels(args[1], args[2]))>>

\* 60 recorded at level 5 and 200 at level 40 of session 1, nothing else for
\* the pair: the curve is 60 on 0..39 and 200 on 40..100
WriteThenReadWitness ==
    /\ CurveDone
    /\ args = <<"V1", "L1">>
    /\ OnlySession("V1", "L1", 1)
    /\ RecordedLevels("V1", 1) = {5, 40}
    /\ recorded[<<"V1", 1, 5>>] = 60
    /\ recorded[<<"V1", 1, 40>>] = 200
    /\ \A level \in 0..39 : curve[level] = <<60, 1>>
    /\ \A level \in 40..100 : curve[level] = <<200, 1>>

SetDone == pc = "done" /\ op = "setChargeCurve"

\* the rows under the key of a call
RowsOfKey(input) ==
    {r \in charge_curve :
        /\ r.vehicle_uuid = input.vehicle_uuid
        /\ r.charge_id = input.charge_id
        /\ r.level = input.level}

\* C4 (upsert idempotence): a setChargeCurve call on a key that an earlier
\* call wrote leaves exactly one row under the key, and the row holds the
\* duration of the later call.
UpsertIdempotence ==
    (SetDone /\ prior # Null) =>
        /\ Cardinality(RowsOfKey(args)) = 1
        /\ \A r \in RowsOfKey(args) : r.duration = args.duration
        /\ returned \in RowsOfKey(args)

\* the second call found another duration under its key
UpsertIdempotenceWitness ==
    /\ SetDone
    /\ prior # Null
    /\ prior[1] # args.duration
    /\ returned.duration = args.duration

\* C5 (uniqueness): in every reachable store state, whatever the calls of the
\* client and of the other workers, no two rows of charge_curve have the same
\* (vehicle_uuid, level, charge_id).
Uniqueness ==
    \A r1 \in charge_curve, r2 \in charge_curve :
        (/\ r1.vehicle_uuid = r2.vehicle_uuid
         /\ r1.level = r2.level
         /\ r1.charge_id = r2.charge_id) => r1 = r2

\* a key written again while another vehicle's row has its level and session
UniquenessWitness ==
    /\ SetDone
    /\ prior # Null
    /\ \E r \in charge_curve :
           /\ r.level = args.level
           /\ r.charge_id = args.charge_id
           /\ r.vehicle_uuid # args.vehicle_uuid

\* C6 (calibration confidence): chargeCalibration returns null when the
\* vehicle has no sample at the location of the session charge_id, whatever
\* sessions exist, and otherwise the greatest level among the vehicle's
\* samples at that location; samples at other locations do not count.
CalibrationConfidence ==
    CalibrationDone =>
        LET samples == IF args[2] \in DOMAIN charge
                       THEN SamplesOf(args[1], charge[args[2]].location_uuid)
                       ELSE {}
        IN  returned = IF samples = {} THEN Null
                       ELSE <<Max({b.level : b \in samples})>>

\* a level is returned while the vehicle has a higher sample at another location
CalibrationConfidenceWitness ==
    /\ CalibrationDone
    /\ returned # Null
    /\ args[2] \in DOMAIN charge
    /\ \E b \in charge_curve :
           /\ b.charge_id \in DOMAIN charge
           /\ charge[b.charge_id].vehicle_uuid = args[1]
           /\ charge[b.charge_id].location_uuid # charge[args[2]].location_uuid
           /\ b.level > returned[1]

\* every entry of the returned curve is this value
ConstantCurve(value) == \A level \in 0..100 : curve[level] = value

\* the sessions of a pair that ended short of their target
ShortSessions(vehicle_uuid, location_uuid) ==
    {c \in SessionsOf(vehicle_uuid, location_uuid) :
        charge[c].end_level < charge[c].target_level}

\* the average of 60 * estimate / (target_level - end_level) over them
SessionAverage(vehicle_uuid, location_uuid) ==
    LET ids == ShortSessions(vehicle_uuid, location_uuid)
    IN  IF ids = {} THEN Null
        ELSE RatDiv(SumSecondsPerLevel(ids), Cardinality(ids))

\* C7 (fallback ordering): with no per-level sample, a curve call that has an
\* average to fall back on (the average of all samples, else the average over
\* the sessions) returns that average at every level, and with no session at
\* all it returns 1200 at every level.
FallbackOrdering ==
    (CurveDone /\ dbCurve = << >>) =>
        /\ sampleAvg # Null => ConstantCurve(sampleAvg)
        /\ (sampleAvg = Null /\ SessionAverage(args[1], args[2]) # Null) =>
               ConstantCurve(SessionAverage(args[1], args[2]))
        /\ SessionsOf(args[1], args[2]) = {} => ConstantCurve(<<1200, 1>>)

\* C8 (session-derived fallback): when the pair has no samples and has
\* sessions with end_level < target_level, the seed is the average of
\* 60 * estimate / (target_level - end_level) over exactly those sessions,
\* every divisor being positive.
SessionDerivedFallback ==
    (/\ CurveDone
     /\ ~dirty
     /\ SamplesOf(args[1], args[2]) = {}
     /\ ShortSessions(args[1], args[2]) # {}) =>
        /\ current = SessionAverage(args[1], args[2])
        /\ \A c \in ShortSessions(args[1], args[2]) :
               charge[c].target_level - charge[c].end_level > 0

\* C9 (fallback precedence): with no per-level sample the seed is the first
\* non-null value among the sample average, the session average and 1200; a
\* value of 0 is adopted like any other, and no later tier is used.
FallbackPrecedence ==
    (CurveDone /\ dbCurve = << >>) =>
        /\ current =
               IF sampleAvg # Null THEN sampleAvg
               ELSE IF SessionAverage(args[1], args[2]) # Null
                    THEN SessionAverage(args[1], args[2])
                    ELSE <<1200, 1>>
        /\ sampleAvg # Null => seedFrom = "avg"

AtRank(rows, k) ==
    CHOOSE d \in {r.duration : r \in rows} :
        /\ Cardinality({r \in rows : r.duration < d}) < k
        /\ k <= Cardinality({r \in rows : r.duration <= d})

\* the samples of a pair at one level, over all its sessions
SamplesAt(vehicle_uuid, location_uuid, level) ==
    {b \in SamplesOf(vehicle_uuid, location_uuid) : b.level = level}

\* C11 (median aggregation): the value the curve holds at a sampled level is
\* the median of the durations of all samples of the pair at that level, over
\* all its sessions: the middle duration for an odd count, the midpoint of the
\* two middle durations for an even count; the mean plays no part.
MedianAggregation ==
    CurveDone =>
        \A level \in {b.level : b \in SamplesOf(args[1], args[2])} :
            LET rows == SamplesAt(args[1], args[2], level)
                n == Cardinality(rows)
            IN  curve[level] =
                    IF n % 2 = 1
                    THEN <<AtRank(rows, (n + 1) \div 2), 1>>
                    ELSE Rat(AtRank(rows, n \div 2)
                                 + AtRank(rows, (n \div 2) + 1), 2)

\* three samples at level 20 with durations 10, 20 and 1000 yield 20
MedianAggregationWitness ==
    /\ CurveDone
    /\ {b.duration : b \in SamplesAt(args[1], args[2], 20)} = {10, 20, 1000}
    /\ curve[20] = <<20, 1>>

OptionalColumns == {"outside_deci_temperature", "energy_used", "energy_added"}

\* a step in which setChargeCurve runs on a key that has a row
SetOnExisting ==
    /\ pc = "idle"
    /\ op' = "setChargeCurve"
    /\ Conflict(charge_curve, args') # {}

\* C12 (omitted optional fields mean no change): when setChargeCurve runs on
\* an existing key, each optional column the call supplies holds the supplied
\* value afterwards and each optional column the call omits holds the value
\* it held before.
OmittedFieldsUnchanged ==
    [][SetOnExisting =>
          \A r \in Conflict(charge_curve, args') :
              \A col \in OptionalColumns :
                  returned'[col] =
                      IF col \in DOMAIN args' THEN args'[col] ELSE r[col]]_vars

\* C13 (InvalidSample): no call of setChargeCurve with a level outside 0..100
\* or a negative duration writes: charge_curve never holds such a row.
InvalidSampleRejected ==
    \A r \in charge_curve : r.level \in 0..100 /\ r.duration >= 0

\* C14 (store failures propagate): when a round trip of getChargeCurve,
\* setChargeCurve or chargeCalibration fails, the call is rejected with no
\* curve, no row and no level returned and nothing written, and the only
\* step that follows is the caller taking the error: no query is issued
\* again and no later tier or default is tried.
StoreFailuresPropagate ==
    [][/\ error' # "none" =>
              /\ pc' = "rejected"
              /\ curve' = << >>
              /\ returned' = Null
              /\ UNCHANGED <<charge, charge_curve>>
       /\ error # "none" =>
              /\ pc' = "idle"
              /\ error' = "none"
              /\ curve' = << >>
              /\ UNCHANGED <<charge, charge_curve>>]_vars

\* the session estimate query or the one before it failed for a pair whose
\* sessions would have given a seed
StoreFailuresPropagateWitness ==
    /\ error = "StoreUnavailable"
    /\ pc = "rejected"
    /\ op = "getChargeCurve"
    /\ dbCurve = << >>
    /\ ShortSessions(args[1], args[2]) # {}
    /\ curve = << >>

\* the workers whose statement has committed and whose call has not returned
Committed == {w \in Writers : calls[w].pc = "done"}

\* the key of the call a worker is in
KeyOf(w) == Key(calls[w].input)

\* C15 (concurrent writers): under every key written, the table holds one
\* row, and it holds every field of the call that committed last on the key,
\* never fields of two calls; when two calls in flight at the same time have
\* committed on different keys, both rows exist with each writer's values,
\* and on the same key the one row is that of the later commit.
ConcurrentWriters ==
    /\ \A k \in DOMAIN last :
           {r \in charge_curve : Key(r) = k} = {Excluded(last[k].input)}
    /\ \A w1 \in Committed, w2 \in Committed :
           (/\ w1 # w2
            /\ KeyOf(w1) # KeyOf(w2)
            /\ last[KeyOf(w1)].writer = w1
            /\ last[KeyOf(w2)].writer = w2) =>
               /\ Excluded(calls[w1].input) \in charge_curve
               /\ Excluded(calls[w2].input) \in charge_curve
               /\ calls[w1].row = Excluded(calls[w1].input)
               /\ calls[w2].row = Excluded(calls[w2].input)
    /\ \A w1 \in Committed, w2 \in Committed :
           (w1 # w2 /\ KeyOf(w1) = KeyOf(w2)) =>
               /\ last[KeyOf(w1)].writer \in {w1, w2}
               /\ RowsOfKey(calls[w1].input)
                      = {Excluded(calls[last[KeyOf(w1)].writer].input)}

\* two calls in flight on one key, one with a temperature only and one with
\* energies: w2 committed last, and the row has nothing of w1's call
ConcurrentWritersWitness ==
    /\ Committed = Writers
    /\ KeyOf("w1") = KeyOf("w2")
    /\ last[KeyOf("w1")].writer = "w2"
    /\ calls["w1"].input.duration # calls["w2"].input.duration
    /\ "energy_used" \in DOMAIN calls["w1"].input
    /\ "energy_used" \notin DOMAIN calls["w2"].input
    /\ calls["w1"].row.energy_used = <<7>>
    /\ \A r \in RowsOfKey(calls["w1"].input) :
           r.energy_used = Null /\ r.duration = calls["w2"].input.duration

\* C16 (internal consistency under concurrent writes): the curve a call
\* returns is the curve of the algorithm on one of the states the store was in
\* between the call and its return.
InternalConsistency ==
    CurveDone =>
        \E samples \in seen : curve = CurveOn(charge, samples, args[1], args[2])

\* the keys recorded on the sessions of a pair
RecordedFor(vehicle_uuid, location_uuid) ==
    {k \in DOMAIN recorded : k[2] \in SessionsOf(vehicle_uuid, location_uuid)}

\* C17 (no staleness): a getChargeCurve call that starts after setChargeCurve
\* calls have committed reflects each of them: the sample of every recorded
\* key of the pair, with the duration recorded last, is among the samples
\* whose median the curve holds at its level, whatever earlier calls
\* returned. A call that writes commit into found no sample of the pair
\* committed when it started.
NoStaleness ==
    /\ (CurveDone /\ ~dirty) =>
           /\ \A k \in RecordedFor(args[1], args[2]) :
                  /\ \E b \in SamplesAt(args[1], args[2], k[3]) :
                         Key(b) = k /\ b.duration = recorded[k]
                  /\ curve[k[3]] = MedianAt(args[1], args[2], k[3])
    /\ (CurveDone /\ dirty) => dbCurve = << >>

\* the one sample of the pair at level 40 was recorded before the call: the
\* curve holds the duration recorded last at level 40 and another value below
NoStalenessWitness ==
    /\ CurveDone
    /\ ~dirty
    /\ \E k \in RecordedFor(args[1], args[2]) :
           /\ k[3] = 40
           /\ SamplesAt(args[1], args[2], 40) = RowsOfKey(
                  [vehicle_uuid |-> k[1], charge_id |-> k[2], level |-> 40])
           /\ curve[40] = <<recorded[k], 1>>
           /\ curve[39] # curve[40]

\* the table charge with only the sessions `ids`
SessionsOnly(ids) == [c \in ids |-> charge[c]]

\* the samples that are not of the pair
ForeignSamples(vehicle_uuid, location_uuid) ==
    charge_curve \ SamplesOf(vehicle_uuid, location_uuid)

\* C18 (scoping): the curve of getChargeCurve(V, L) is the curve of the
\* algorithm on the store that holds the sessions of V at L and the samples
\* recorded on them and nothing else, so that two stores that differ only in
\* sessions or samples of other vehicles or of other locations yield the
\* same curve.
Scoping ==
    (CurveDone /\ ~dirty) =>
        curve = CurveOn(SessionsOnly(SessionsOf(args[1], args[2])),
                        SamplesOf(args[1], args[2]), args[1], args[2])

\* a curve from a sample of the pair, in a store that also holds a session
\* of the vehicle at another location with a sample of another duration
ScopingWitness ==
    /\ CurveDone
    /\ ~dirty
    /\ SamplesOf(args[1], args[2]) # {}
    /\ \E b \in ForeignSamples(args[1], args[2]) :
           /\ b.charge_id \in DOMAIN charge
           /\ charge[b.charge_id].vehicle_uuid = args[1]
           /\ charge[b.charge_id].location_uuid # args[2]
           /\ \A level \in 0..100 : curve[level] # <<b.duration, 1>>

\* the keys whose row a step adds, changes or removes
ChangedKeys ==
    {Key(r) : r \in (charge_curve \ charge_curve') \cup (charge_curve' \ charge_curve)}

\* a step of the client in getChargeCurve or chargeCalibration
ReadStep == pc' # pc /\ op' \in {"getChargeCurve", "chargeCalibration"}

\* the step of the client's setChargeCurve
WriteStep == pc = "idle" /\ op' = "setChargeCurve"

\* C19 (append/upsert only): no step of getChargeCurve or chargeCalibration
\* changes charge_curve; a setChargeCurve call changes no row but the one of
\* its own key; and no step of any of them removes a row or lowers the
\* number of rows.
AppendOnly ==
    [][/\ ReadStep => charge_curve' = charge_curve
       /\ WriteStep => ChangedKeys \subseteq {Key(args')}
       /\ Cardinality(ChangedKeys) <= 1
       /\ \A r \in charge_curve : \E r2 \in charge_curve' : Key(r2) = Key(r)
       /\ Cardinality(charge_curve') >= Cardinality(charge_curve)]_vars

\* setChargeCurve has added a row for another level of a session that had a
\* row, and that row is still there
AppendOnlyWitness ==
    /\ SetDone
    /\ prior = Null
    /\ \E r \in charge_curve :
           /\ r.vehicle_uuid = args.vehicle_uuid
           /\ r.charge_id = args.charge_id
           /\ r.level # args.level
           /\ Key(r) \in DOMAIN recorded
           /\ r.duration = recorded[Key(r)]

\* removeVehicle(v) has left no row and no session of v and has left the rows
\* and the sessions of the other vehicles as they were
VehicleRemoved(v) ==
    /\ \A r \in charge_curve' : r.vehicle_uuid # v
    /\ \A c \in DOMAIN charge' : charge'[c].vehicle_uuid # v
    /\ charge_curve' = {r \in charge_curve : r.vehicle_uuid # v}
    /\ \A c \in DOMAIN charge :
           charge[c].vehicle_uuid # v =>
               c \in DOMAIN charge' /\ charge'[c] = charge[c]

\* removeLocation(l) has left no session at l and no row of a session at l
\* and has left the rows and the sessions of the other locations as they were
LocationRemoved(l) ==
    /\ \A c \in DOMAIN charge' : charge'[c].location_uuid # l
    /\ \A r \in charge_curve' :
           r.charge_id \in DOMAIN charge => charge[r.charge_id].location_uuid # l
    /\ \A r \in charge_curve :
           (r.charge_id \in DOMAIN charge
               /\ charge[r.charge_id].location_uuid # l) => r \in charge_curve'
    /\ charge_curve' \subseteq charge_curve
    /\ \A c \in DOMAIN charge :
           charge[c].location_uuid # l =>
               c \in DOMAIN charge' /\ charge'[c] = charge[c]

\* the pairs that had sessions in the store as it was filled
StoredPairs ==
    {<<StoredSessions[c].vehicle_uuid, StoredSessions[c].location_uuid>> :
        c \in DOMAIN StoredSessions}

\* after the removal of its vehicle or of its location, getChargeCurve for a
\* pair returns 1200 at every level and chargeCalibration for the vehicle on
\* a session of the pair returns null
RemovedPairReads ==
    /\ (/\ CurveDone
        /\ <<args[1], args[2]>> \in StoredPairs
        /\ SessionsOf(args[1], args[2]) = {}) => ConstantCurve(<<1200, 1>>)
    /\ (/\ CalibrationDone
        /\ <<args[1], StoredSessions[args[2]].location_uuid>> \in StoredPairs
        /\ args[2] \notin DOMAIN charge) => returned = Null

\* C20 (cascading removal): removeVehicle(V) leaves no sample and no session
\* of V, removeLocation(L) leaves no session at L and no sample of a session
\* at L, both leave the samples and sessions of the other vehicles and
\* locations unchanged, and afterwards getChargeCurve for a removed pair
\* returns the constant 1200 and chargeCalibration returns null.
CascadingRemoval ==
    [][/\ (pc = "idle" /\ op' = "removeVehicle") => VehicleRemoved(args'[1])
       /\ (pc = "idle" /\ op' = "removeLocation") => LocationRemoved(args'[1])
       /\ RemovedPairReads']_vars

\* V1 has been removed from a store with samples of V1 and of V2, and the
\* call after it for V1 at L1 returns the default while V2's samples remain
CascadingRemovalWitness ==
    /\ CurveDone
    /\ args = <<"V1", "L1">>
    /\ DOMAIN charge = {4}
    /\ \E r \in charge_curve : r.vehicle_uuid = "V2"
    /\ \A r \in charge_curve : r.vehicle_uuid # "V1"
    /\ ConstantCurve(<<1200, 1>>)

(***************************************************************************)
(* getChargeCurve called again and again, the store changing in between    *)
(***************************************************************************)
\* the pairs getChargeCurve is called for: one with three sessions and one
\* with a single session
RepeatPairs == {<<"V1", "L1">>, <<"V2", "L2">>}

\* the caller notes, per pair, the store the curve was computed from
Remember ==
    memo' = IF op = "getChargeCurve"
            THEN (args :> [sessions |-> charge, samples |-> charge_curve,
                           curve |-> curve]) @@ memo
            ELSE memo

\* one more this.pg round trip of the call in flight
Query == queries' = queries + 1

NextRepeat ==
    \/ \E p \in RepeatPairs :
          /\ GetChargeCurve(p[1], p[2])
          /\ Query
          /\ UNCHANGED <<calls, last, seen, error, memo, later>>
    \/ GetChargeCurveAvg /\ Query
          /\ UNCHANGED <<calls, last, seen, error, memo, later>>
    \/ GetChargeCurveEstimate /\ Query
          /\ UNCHANGED <<calls, last, seen, error, memo, later>>
    \/ \E v \in Vehicles : RemoveVehicle(v) /\ UNCHANGED aux
    \/ Return /\ Remember /\ queries' = 0
          /\ UNCHANGED <<calls, last, seen, error, later>>

SpecRepeat == InitStored /\ [][NextRepeat]_vars

\* the pair's curve was returned before from the store as it is now
SameStoreAsBefore ==
    /\ args \in DOMAIN memo
    /\ memo[args].sessions = charge
    /\ memo[args].samples = charge_curve

OneReadQuery == CurveDone => queries = 1

\* C23: the assertion of getChargeCurve holds in every reachable state: no
\* call ends in the failed assertion, and whichever branch set the seed (the
\* first per-level row, the AVG(duration) answer, the session estimate or
\* the default), the seed is neither undefined nor null
SeedAsserted ==
    /\ pc # "failed"
    /\ seedFrom \in {"level", "avg", "estimate", "default"} => AssertSeed(current)

\* the seed of a returned curve came from the AVG(duration) query, samples
\* having been written after the per-level query found none
SeedAssertedWitness ==
    /\ CurveDone
    /\ seedFrom = "avg"
    /\ AssertSeed(current)
    /\ dbCurve = << >>

(***************************************************************************)
(* setChargeCurve, removeVehicle and removeLocation in any order           *)
(***************************************************************************)
\* a session of V1 and a session of V2
IntegrityCharges == {1, 4}

NextIntegrity ==
    \/ \E v \in Vehicles, c \in IntegrityCharges, l \in SampleLevels :
          SetChargeCurve(v, c, l, 60, << >>) /\ UNCHANGED aux
    \/ \E v \in Vehicles : RemoveVehicle(v) /\ UNCHANGED aux
    \/ \E l \in Locations : RemoveLocation(l) /\ UNCHANGED aux
    \/ Return /\ UNCHANGED aux

SpecIntegrity == InitWrite /\ [][NextIntegrity]_vars

\* C24: after any sequence of setChargeCurve, removeVehicle and
\* removeLocation calls every charge_curve row refers to an existing charge
\* session, and the vehicle_uuid of the row is the vehicle_uuid of that session
ReferentialIntegrity ==
    \A b \in charge_curve :
        /\ b.charge_id \in DOMAIN charge
        /\ charge[b.charge_id].vehicle_uuid = b.vehicle_uuid

(***************************************************************************)
(* maintainanceWorker: the sweep of orphan service providers               *)
(***************************************************************************)
\* the period of setInterval, 60e3 ms
Minute == 60000

\* the distance of two passes, 3600e3 ms
Hour == 3600000

\* the callbacks the timer makes
MaxIntervals == 125

\* the callbacks that pass between two the model looks at: the next one, or
\* the one an hour later
Skips == {1, 60}

\* SELECT * FROM service_provider WHERE NOT EXISTS (... vehicle ...) AND
\*   NOT EXISTS (... location ...)
Orphans == service_provider \ references

\* the orders in which the query may return a set of rows
RECURSIVE Orders(_)
Orders(rows) ==
    IF rows = {} THEN {<< >>}
    ELSE UNION {{<<o>> \o q : q \in Orders(rows \ {o})} : o \in rows}

\* the for loop up to its next await: rows not yet marked are marked, and at
\* the first marked row the DELETE is sent; after the last row the stats_map
\* statements are sent
RECURSIVE Visit(_, _)
Visit(rows, marked) ==
    IF rows = << >> THEN [rows |-> << >>, marked |-> marked, sweep |-> "stats"]
    ELSE IF Head(rows) \in marked
         THEN [rows |-> rows, marked |-> marked, sweep |-> "delete"]
         ELSE Visit(Tail(rows), marked \cup {Head(rows)})

\* a vehicle or a location that carries the service_uuid is stored
Reference(service_uuid) ==
    /\ service_uuid \in service_provider \ references
    /\ references' = references \cup {service_uuid}
    /\ UNCHANGED <<service_provider, orphanServices, now, nextCleanup, sweep,
                   selected, found, before, early>>

\* the last vehicle or location that carries the service_uuid is removed
Unreference(service_uuid) ==
    /\ service_uuid \in references
    /\ references' = references \ {service_uuid}
    /\ UNCHANGED <<service_provider, orphanServices, now, nextCleanup, sweep,
                   selected, found, before, early>>

\* the timer callback, up to its first await when a pass is due
Interval(skipped) ==
    /\ sweep = "idle"
    /\ now + skipped * Minute <= MaxIntervals * Minute
    /\ now' = now + skipped * Minute
    /\ IF now' > nextCleanup
       THEN \E rows \in Orders(Orphans) :
                LET loop == Visit(rows, orphanServices)
                IN  /\ found' = Orphans
                    /\ before' = found
                    /\ orphanServices' = loop.marked
                    /\ selected' = loop.rows
                    /\ sweep' = loop.sweep
       ELSE UNCHANGED <<orphanServices, selected, sweep, found, before>>
    /\ UNCHANGED <<service_provider, references, nextCleanup, early>>

\* DELETE FROM service_provider WHERE service_uuid = $1 and the loop after it
SweepDelete ==
    /\ sweep = "delete"
    /\ service_provider' = service_provider \ {Head(selected)}
    /\ early' = IF Head(selected) \in before THEN early
                ELSE early \cup {Head(selected)}
    /\ LET loop == Visit(Tail(selected), orphanServices)
       IN  /\ orphanServices' = loop.marked
           /\ selected' = loop.rows
           /\ sweep' = loop.sweep
    /\ UNCHANGED <<references, now, nextCleanup, found, before>>

\* the stats_map statements return; nextCleanup = now + 3600e3
SweepStats ==
    /\ sweep = "stats"
    /\ nextCleanup' = now + Hour
    /\ sweep' = "idle"
    /\ UNCHANGED <<service_provider, references, orphanServices, now, selected,
                   found, before, early>>

NextSweep ==
    \/ \E s \in Providers : Reference(s) /\ UNCHANGED <<core, tibber, tesla>>
    \/ \E s \in Providers : Unreference(s) /\ UNCHANGED <<core, tibber, tesla>>
    \/ \E skipped \in Skips : Interval(skipped) /\ UNCHANGED <<core, tibber, tesla>>
    \/ SweepDelete /\ UNCHANGED <<core, tibber, tesla>>
    \/ SweepStats /\ UNCHANGED <<core, tibber, tesla>>

SpecSweep == InitWrite /\ [][NextSweep]_vars

\* C25: the worker deletes a service_provider row only if the pass that
\* deletes it and the pass immediately before it both found the provider
\* orphaned; a provider orphaned, then referenced, then orphaned again is not
\* deleted by the first pass that finds it orphaned again
TwoPassSweep == early = {}

(***************************************************************************)
(* TibberAgent.work                                                        *)
(***************************************************************************)
\* Date.now() at the call, in ms: around the start of an hour, with and
\* without a part of a second
TibberNows ==
    {s * 1000 + ms : s \in {0, 1, 1799, 3599, 3600, 3601, 7199, 7200},
                     ms \in {0, 1, 999}}

Currencies == {"SEK", "NOK"}

\* what tibberAPI.post resolves to: the error "No valid access token", or
\* price info with the current currency (none when current is null) and the
\* number of price points of today and tomorrow
Answers ==
    {[errors |-> TRUE, currency |-> Null, points |-> 0]}
        \cup [errors : {FALSE}, currency : {Null} \cup {<<c>> : c \in Currencies},
              points : {0, 24, 48}]

\* Math.trunc(now / 1e3)
EpochSeconds(ms) == ms \div 1000

\* the interval rounding the hour up instead of taking the next one
ReschedulingCeil(ts) == ((ts + 3599) \div 3600) * 3600 - ts

\* Math.trunc(ts / 3600 + 1) * 3600 - ts
Rescheduling(ts) == (ts \div 3600 + 1) * 3600 - ts

\* work() up to its first await
Work(ms, providerData) ==
    /\ tpc = "idle"
    /\ tnow' = ms
    /\ job' = providerData
    /\ sent' = << >>
    /\ interval' = 60
    /\ IF providerData.invalidToken
       THEN tpc' = "done" /\ posts' = 0
       ELSE tpc' = "post" /\ posts' = 1

\* this.scClient.updatePrice(update) is called
SendUpdatePrice(log) ==
    /\ sent' = Append(log, "updatePrice")
    /\ tpc' = "updatePrice"

\* tibberAPI.post resolves, up to the next await
PostResolves(res) ==
    /\ tpc = "post"
    /\ IF res.errors
       THEN /\ sent' = Append(sent, "updateLocation invalidToken")
            /\ tpc' = "invalidToken"
            /\ UNCHANGED job
       ELSE IF res.currency # Null /\ job.currency # res.currency[1]
       THEN /\ job' = [job EXCEPT !.currency = res.currency[1]]
            /\ sent' = Append(sent, "updateLocation currency")
            /\ tpc' = IF res.points > 0 THEN "currency" ELSE "currency, no points"
       ELSE IF res.points > 0
       THEN SendUpdatePrice(sent) /\ UNCHANGED job
       ELSE tpc' = "thrown" /\ UNCHANGED <<job, sent>>
    /\ UNCHANGED <<tnow, posts, interval>>

\* updateLocation({invalidToken: true}) resolves; return interval
InvalidTokenStored ==
    /\ tpc = "invalidToken"
    /\ tpc' = "done"
    /\ UNCHANGED <<tnow, job, posts, sent, interval>>

\* updateLocation({currency}) resolves; assert(list.length > 0)
CurrencyStored ==
    /\ tpc \in {"currency", "currency, no points"}
    /\ IF tpc = "currency"
       THEN SendUpdatePrice(sent)
       ELSE tpc' = "thrown" /\ UNCHANGED sent
    /\ UNCHANGED <<tnow, job, posts, interval>>

\* updatePrice resolves; the interval to the next whole hour is returned
PriceUpdated ==
    /\ tpc = "updatePrice"
    /\ interval' = Rescheduling(EpochSeconds(tnow))
    /\ tpc' = "done"
    /\ UNCHANGED <<tnow, job, posts, sent>>

\* the promise work() awaits is rejected; work() has no try
AwaitRejects ==
    /\ tpc \in {"post", "invalidToken", "currency", "currency, no points",
                 "updatePrice"}
    /\ tpc' = "thrown"
    /\ UNCHANGED <<tnow, job, posts, sent, interval>>

\* the caller has the interval, or the error
WorkSettled ==
    /\ tpc \in {"done", "thrown"}
    /\ tpc' = "idle"
    /\ UNCHANGED <<tnow, job, posts, sent, interval>>

NextTibber ==
    \/ \E ms \in TibberNows, flagged \in BOOLEAN, c \in Currencies :
          /\ Work(ms, [invalidToken |-> flagged, currency |-> c])
          /\ UNCHANGED <<core, maint, tesla>>
    \/ \E res \in Answers : PostResolves(res) /\ UNCHANGED <<core, maint, tesla>>
    \/ InvalidTokenStored /\ UNCHANGED <<core, maint, tesla>>
    \/ CurrencyStored /\ UNCHANGED <<core, maint, tesla>>
    \/ PriceUpdated /\ UNCHANGED <<core, maint, tesla>>
    \/ AwaitRejects /\ UNCHANGED <<core, maint, tesla>>
    \/ WorkSettled /\ UNCHANGED <<core, maint, tesla>>

SpecTibber == InitWrite /\ [][NextTibber]_vars

\* work() has returned after updatePrice resolved
PriceUpdateDone ==
    /\ tpc = "done"
    /\ Len(sent) > 0
    /\ sent[Len(sent)] = "updatePrice"

\* C26: after a successful price update work() returns a whole number of
\* seconds in 1..3600 that added to the epoch second of its start gives the
\* first whole hour after it; with the token flagged invalid it returns 60
\* without a post and without an update, and when the API answers "No valid
\* access token" it returns 60
Rescheduled ==
    /\ PriceUpdateDone =>
           /\ interval \in 1..3600
           /\ (EpochSeconds(tnow) + interval) % 3600 = 0
    /\ (tpc = "done" /\ job.invalidToken) =>
           /\ interval = 60
           /\ posts = 0
           /\ sent = << >>
    /\ (tpc = "done" /\ "updateLocation invalidToken" \in {sent[i] : i \in DOMAIN sent}) =>
           interval = 60

\* a price update for a call made on the whole hour, which waits 3600 s
RescheduledWitness ==
    /\ PriceUpdateDone
    /\ tnow = 3600000
    /\ interval = 3600

(***************************************************************************)
(* The Tesla provider: maintainToken, validToken, invalidToken             *)
(***************************************************************************)
\* the refreshToken requests teslaAPI answers with a new token or an error,
\* each of which starts a call that is not awaited
MaxRefreshed == 1

\* { refresh_token } alone, as the mutation RefreshToken builds it
RefreshOnly(n) == [access_token |-> 0, refresh_token |-> n]

\* service_data @> { token: pattern }; JSON drops the undefined fields of
\* the pattern
Contains(data, pattern) ==
    /\ data.token # Null
    /\ pattern.refresh_token # 0 =>
           data.token[1].refresh_token = pattern.refresh_token
    /\ pattern.access_token # 0 =>
           data.token[1].access_token = pattern.access_token

\* the rows of an UPDATE service_provider ... RETURNING *
Matching(table, pattern) == {s \in DOMAIN table : Contains(table[s], pattern)}

\* UPDATE service_provider SET service_data = jsonb_strip_nulls(service_data
\*   || { token: newToken, invalid_token: null }) WHERE service_data @> $1
ValidTokenStatement(table, pattern, newToken) ==
    [s \in DOMAIN table |->
        IF Contains(table[s], pattern)
        THEN [token |-> <<newToken>>, invalid_token |-> FALSE]
        ELSE table[s]]

\* UPDATE service_provider SET service_data = jsonb_strip_nulls(service_data
\*   || { invalid_token: true }) WHERE service_data @> $1
InvalidTokenStatement(table, pattern) ==
    [s \in DOMAIN table |->
        IF Contains(table[s], pattern)
        THEN [table[s] EXCEPT !.invalid_token = TRUE]
        ELSE table[s]]

\* a query parameter that is a JavaScript string (a service_uuid)
String(value) == [kind |-> "string", value |-> value]

\* a query parameter that is the object { invalid_token: flag }, null when
\* the flag is FALSE
Object(flag) == [kind |-> "object", value |-> flag]

\* UPDATE vehicle SET provider_data = jsonb_strip_nulls(provider_data || $2)
\*   WHERE service_uuid = $1: the store rejects the statement unless $1 is
\* the text of a uuid and $2 the text of a JSON object
UpdateProviderData(table, p1, p2) ==
    IF p1.kind = "string" /\ p2.kind = "object"
    THEN [ok |-> TRUE,
          rows |-> [v \in DOMAIN table |->
                       IF table[v].service_uuid = p1.value
                       THEN [table[v] EXCEPT !.invalid_token = p2.value]
                       ELSE table[v]]]
    ELSE [ok |-> FALSE, rows |-> table]

\* validToken(db, oldRefreshToken, newToken) before its first statement
ValidToken(oldRefreshToken, newToken) ==
    [kind |-> "validToken", pattern |-> RefreshOnly(oldRefreshToken),
     newToken |-> <<newToken>>, pc |-> "service_provider", rows |-> << >>,
     updated |-> {}]

\* invalidToken(db, token) before its first statement
InvalidToken(tok) ==
    [kind |-> "invalidToken", pattern |-> tok, newToken |-> Null,
     pc |-> "service_provider", rows |-> << >>, updated |-> {}]

\* the vehicle statement as validToken and as invalidToken send it
VehicleStatement(kind, service_uuid) ==
    IF kind = "validToken"
    THEN UpdateProviderData(vehicle, Object(FALSE), String(service_uuid))
    ELSE UpdateProviderData(vehicle, String(service_uuid), Object(TRUE))

\* the vehicles of the services a validToken call updated that still carry
\* invalid_token although their service does not
LeftFlagged(services, rows) ==
    {v \in DOMAIN rows :
        /\ rows[v].service_uuid \in services
        /\ rows[v].invalid_token
        /\ ~service_data[rows[v].service_uuid].invalid_token}

\* a detached call gets the answer of its UPDATE service_provider
DetachedServiceUpdate(t) ==
    /\ t.pc = "service_provider"
    /\ service_data' = IF t.kind = "validToken"
                       THEN ValidTokenStatement(service_data, t.pattern,
                                                t.newToken[1])
                       ELSE InvalidTokenStatement(service_data, t.pattern)
    /\ \E order \in Orders(Matching(service_data, t.pattern)) :
          detached' = IF order = << >> THEN detached \ {t}
                      ELSE (detached \ {t}) \cup
                           {[t EXCEPT !.pc = "vehicle", !.rows = order,
                                      !.updated = Matching(service_data, t.pattern)]}
    /\ UNCHANGED <<vehicle, minted, stale>>

\* a detached call gets the answer of its UPDATE vehicle and goes on with
\* the loop, or is rejected with the error of the store
DetachedVehicleUpdate(t) ==
    /\ t.pc = "vehicle"
    /\ LET answer == VehicleStatement(t.kind, Head(t.rows))
           ends == ~answer.ok \/ Tail(t.rows) = << >>
       IN  /\ vehicle' = answer.rows
           /\ detached' = IF ends THEN detached \ {t}
                           ELSE (detached \ {t}) \cup
                                {[t EXCEPT !.rows = Tail(t.rows)]}
           /\ stale' = IF ends /\ t.kind = "validToken"
                        THEN stale \cup LeftFlagged(t.updated, answer.rows)
                        ELSE stale
    /\ UNCHANGED <<service_data, minted>>

\* what teslaAPI.refreshToken does: no new token, a new token, an error
Refreshes == {"none", "new", "throws"}

\* maintainToken after teslaAPI.refreshToken settles: the token returned or
\* the error thrown, and the call it starts without awaiting it
MaintainToken(old, refresh) ==
    IF refresh = "none"
    THEN [throws |-> FALSE, token |-> <<old>>, starts |-> {}, minted |-> minted]
    ELSE IF refresh = "new" /\ old.refresh_token # 0
    THEN [throws |-> FALSE, token |-> <<Token(minted + 1)>>,
          starts |-> {ValidToken(old.refresh_token, Token(minted + 1))},
          minted |-> minted + 1]
    ELSE [throws |-> TRUE, token |-> Null, starts |-> {InvalidToken(old)},
          minted |-> minted + 1]

\* mutation RefreshToken: maintainToken(db, data.token or { refresh_token })
RefreshToken(old) ==
    /\ mpc = "idle"
    /\ mpc' = "refreshToken"
    /\ oldToken' = old
    /\ result' = Null
    /\ issued' = {}
    /\ UNCHANGED teslaStore

\* teslaAPI.refreshToken settles and maintainToken returns or throws
RefreshTokenSettles(refresh) ==
    /\ mpc = "refreshToken"
    /\ refresh # "none" => minted < 2 + MaxRefreshed
    /\ LET call == MaintainToken(oldToken, refresh)
       IN  /\ minted' = call.minted
           /\ detached' = detached \cup call.starts
           /\ issued' = call.starts
           /\ result' = call.token
           /\ mpc' = IF call.throws THEN "INVALID_TOKEN" ELSE "returned"
    /\ UNCHANGED <<service_data, vehicle, stale, oldToken>>

\* the caller of the mutation has the token, or the error
MutationSettled ==
    /\ mpc \in {"returned", "INVALID_TOKEN"}
    /\ mpc' = "idle"
    /\ oldToken' = Null
    /\ result' = Null
    /\ issued' = {}
    /\ UNCHANGED teslaStore

(***************************************************************************)
(* The Tesla provider: the query Vehicles                                  *)
(***************************************************************************)
\* SELECT * FROM service_provider ... ORDER BY 1,2
ServiceOrder == <<"S1", "S2">>

\* provider_data.vin of the vehicle rows; no row has the vin Z
VinOf == ("V1" :> "X") @@ ("V2" :> "Y")

\* the .response of teslaAPI.listVehicle, as the vin of its entries
Lists == {<<"X">>, <<"X", "Y">>, <<"Z", "Y">>}

\* the codes listVehicle fails with
Codes == {401, 500}

\* the condition without its invalid_token half
SkippedWithoutToken(s) == s.service_data.token = Null

\* !(!s.service_data.invalid_token && s.service_data.token)
Skipped(s) == s.service_data.invalid_token \/ s.service_data.token = Null

\* the for loop over serviceList from position i up to its next await:
\* maintainToken is called for the first service not skipped, and after the
\* last service the query returns
EnterLoop(i) ==
    LET rest == {j \in i..Len(serviceList) : ~Skipped(serviceList[j])}
    IN  IF rest = {}
        THEN /\ idx' = Len(serviceList) + 1
             /\ qpc' = "done"
             /\ asked' = asked
        ELSE LET j == CHOOSE x \in rest : \A y \in rest : x <= y
             IN  /\ idx' = j
                 /\ qpc' = "refreshToken"
                 /\ asked' = asked \cup {serviceList[j].service_uuid}

\* the query up to getServiceProviders resolving (data.token not given)
QueryVehicles ==
    /\ qpc = "idle"
    /\ serviceList' = [i \in DOMAIN ServiceOrder |->
                          [service_uuid |-> ServiceOrder[i],
                           service_data |-> service_data[ServiceOrder[i]]]]
    /\ qpc' = "getVehicles"
    /\ UNCHANGED <<controlled, mapped, idx, token, vehicles, dblist, asked,
                   listed, pushed, unauthorized>>
    /\ UNCHANGED teslaStore

\* getVehicles resolves, controlled is built, the loop is entered
GetVehiclesResolves ==
    /\ qpc = "getVehicles"
    /\ controlled' = [vin \in {VinOf[v] : v \in DOMAIN vehicle} |->
                         LET v == CHOOSE x \in DOMAIN vehicle : VinOf[x] = vin
                         IN  [vehicle_uuid |-> v,
                              service_uuid |-> vehicle[v].service_uuid]]
    /\ EnterLoop(1)
    /\ UNCHANGED <<serviceList, mapped, token, vehicles, dblist, listed,
                   pushed, unauthorized>>
    /\ UNCHANGED teslaStore

\* maintainToken settles: the query goes on to listVehicle, or is rejected
QueryRefreshSettles(refresh) ==
    /\ qpc = "refreshToken"
    /\ refresh # "none" => minted < 2 + MaxRefreshed
    /\ LET call == MaintainToken(serviceList[idx].service_data.token[1],
                                 refresh)
       IN  /\ minted' = call.minted
           /\ detached' = detached \cup call.starts
           /\ token' = call.token
           /\ IF call.throws
              THEN qpc' = "INVALID_TOKEN" /\ listed' = listed
              ELSE /\ qpc' = "listVehicle"
                   /\ listed' = listed \cup {serviceList[idx].service_uuid}
    /\ UNCHANGED <<service_data, vehicle, stale, serviceList, controlled,
                   mapped, idx, vehicles, dblist, asked, pushed, unauthorized>>

\* mapped overwritten by every service that lists the vin
MappedLast(list, s) ==
    LET vins == {list[i] : i \in DOMAIN list} \cap DOMAIN controlled
    IN  [vin \in DOMAIN mapped \cup vins |->
            IF vin \in vins THEN s ELSE mapped[vin]]

\* mapped after the entries of a list of service s
Mapped(list, s) ==
    LET vins == {list[i] : i \in DOMAIN list} \cap DOMAIN controlled
    IN  [vin \in DOMAIN mapped \cup vins |->
            IF vin \in DOMAIN mapped THEN mapped[vin] ELSE s]

\* the entries of a list as they are pushed: service_uuid and vehicle_uuid
\* are set on the entries of controlled vehicles only
Entries(list, s) ==
    [i \in DOMAIN list |->
        IF list[i] \in DOMAIN controlled
        THEN [vin |-> list[i], service_uuid |-> <<Mapped(list, s)[list[i]]>>,
              vehicle_uuid |-> <<controlled[list[i]].vehicle_uuid>>]
        ELSE [vin |-> list[i], service_uuid |-> Null, vehicle_uuid |-> Null]]

\* the vins whose vehicle row carries another service_uuid than the entry
Wrong(list, s) ==
    {vin \in {list[i] : i \in DOMAIN list} \cap DOMAIN controlled :
        controlled[vin].service_uuid # Mapped(list, s)[vin]}

\* listVehicle resolves: the entries are mapped, wrong service_uuid are
\* corrected in the store, the list is pushed and the loop goes on
ListVehicleResolves(list) ==
    /\ qpc = "listVehicle"
    /\ LET s == serviceList[idx].service_uuid
           wrong == Wrong(list, s)
       IN  /\ mapped' = Mapped(list, s)
           /\ controlled' = [vin \in DOMAIN controlled |->
                                IF vin \in wrong
                                THEN [controlled[vin] EXCEPT
                                          !.service_uuid = mapped'[vin]]
                                ELSE controlled[vin]]
           /\ vehicle' = [v \in DOMAIN vehicle |->
                             IF VinOf[v] \in wrong
                             THEN [service_uuid |-> mapped'[VinOf[v]],
                                   invalid_token |-> FALSE]
                             ELSE vehicle[v]]
           /\ vehicles' = vehicles \o Entries(list, s)
           /\ pushed' = Append(pushed, [service_uuid |-> s, list |-> list])
    /\ EnterLoop(idx + 1)
    /\ UNCHANGED <<service_data, minted, detached, stale, serviceList, token,
                   dblist, listed, unauthorized>>

\* listVehicle is rejected: with code 401 invalidToken is called and
\* awaited, any other error is dropped
ListVehicleRejects(code) ==
    /\ qpc = "listVehicle"
    /\ IF code = 401
       THEN /\ qpc' = "invalidToken"
            /\ unauthorized' = unauthorized \cup
                   {[service_uuid |-> serviceList[idx].service_uuid,
                     token |-> token[1]]}
            /\ UNCHANGED <<idx, asked>>
       ELSE EnterLoop(idx + 1) /\ UNCHANGED unauthorized
    /\ UNCHANGED <<serviceList, controlled, mapped, token, vehicles, dblist,
                   listed, pushed>>
    /\ UNCHANGED teslaStore

\* the awaited invalidToken gets the answer of its UPDATE service_provider
QueryInvalidToken ==
    /\ qpc = "invalidToken"
    /\ service_data' = InvalidTokenStatement(service_data, token[1])
    /\ \E order \in Orders(Matching(service_data, token[1])) :
          /\ dblist' = order
          /\ IF order = << >>
             THEN EnterLoop(idx + 1)
             ELSE qpc' = "invalidToken vehicle" /\ UNCHANGED <<idx, asked>>
    /\ UNCHANGED <<vehicle, minted, detached, stale, serviceList, controlled,
                   mapped, token, vehicles, listed, pushed, unauthorized>>

\* the awaited invalidToken gets the answer of an UPDATE vehicle
QueryInvalidTokenVehicle ==
    /\ qpc = "invalidToken vehicle"
    /\ vehicle' = VehicleStatement("invalidToken", Head(dblist)).rows
    /\ dblist' = Tail(dblist)
    /\ IF dblist' = << >>
       THEN EnterLoop(idx + 1)
       ELSE UNCHANGED <<qpc, idx, asked>>
    /\ UNCHANGED <<service_data, minted, detached, stale, serviceList,
                   controlled, mapped, token, vehicles, listed, pushed,
                   unauthorized>>

\* the caller of the query has the vehicles, or the error
QuerySettled ==
    /\ qpc \in {"done", "INVALID_TOKEN"}
    /\ qpc' = "idle"
    /\ serviceList' = << >>
    /\ controlled' = << >>
    /\ mapped' = << >>
    /\ idx' = 0
    /\ token' = Null
    /\ vehicles' = << >>
    /\ dblist' = << >>
    /\ asked' = {}
    /\ listed' = {}
    /\ pushed' = << >>
    /\ unauthorized' = {}
    /\ UNCHANGED teslaStore

\* the tokens a client sends with the mutation: a token some service holds,
\* whole or as its refresh_token alone
ClientTokens ==
    UNION {{service_data[s].token[1],
            RefreshOnly(service_data[s].token[1].refresh_token)} :
              s \in {x \in DOMAIN service_data : service_data[x].token # Null}}

\* the second service holds its own token, the token of the first, no token,
\* or a token flagged invalid; each vehicle is on its own service, or both
\* are on the second, and carries the flag of its service
TeslaStores ==
    {[service_data |-> ("S1" :> Service(1)) @@ ("S2" :> second),
      vehicle |-> [v \in DOMAIN VinOf |->
                      [service_uuid |-> on[v],
                       invalid_token |-> on[v] = "S2" /\ second.invalid_token]]] :
        second \in {Service(2), Service(1),
                    [token |-> Null, invalid_token |-> FALSE],
                    [Service(2) EXCEPT !.invalid_token = TRUE]},
        on \in {("V1" :> "S1") @@ ("V2" :> "S2"),
                ("V1" :> "S2") @@ ("V2" :> "S2")}}

InitTesla ==
    /\ InitHistory
    /\ InitMaint
    /\ InitTibber
    /\ InitSessions
    /\ InitTeslaCalls
    /\ \E store \in TeslaStores :
          /\ service_data = store.service_data
          /\ vehicle = store.vehicle

NextToken ==
    \/ \E old \in ClientTokens :
          RefreshToken(old) /\ UNCHANGED <<core, maint, tibber, teslaQuery>>
    \/ \E refresh \in Refreshes :
          /\ RefreshTokenSettles(refresh)
          /\ UNCHANGED <<core, maint, tibber, teslaQuery>>
    \/ MutationSettled /\ UNCHANGED <<core, maint, tibber, teslaQuery>>
    \/ \E t \in detached :
          /\ DetachedServiceUpdate(t)
          /\ UNCHANGED <<core, maint, tibber, teslaMutation, teslaQuery>>
    \/ \E t \in detached :
          /\ DetachedVehicleUpdate(t)
          /\ UNCHANGED <<core, maint, tibber, teslaMutation, teslaQuery>>

SpecToken == InitTesla /\ [][NextToken]_vars

NextTesla ==
    \/ \E t \in detached :
          /\ DetachedServiceUpdate(t)
          /\ UNCHANGED <<core, maint, tibber, teslaMutation, teslaQuery>>
    \/ \E t \in detached :
          /\ DetachedVehicleUpdate(t)
          /\ UNCHANGED <<core, maint, tibber, teslaMutation, teslaQuery>>
    \/ QueryVehicles /\ UNCHANGED <<core, maint, tibber, teslaMutation>>
    \/ GetVehiclesResolves /\ UNCHANGED <<core, maint, tibber, teslaMutation>>
    \/ \E refresh \in Refreshes :
          /\ QueryRefreshSettles(refresh)
          /\ UNCHANGED <<core, maint, tibber, teslaMutation>>
    \/ \E list \in Lists :
          /\ ListVehicleResolves(list)
          /\ UNCHANGED <<core, maint, tibber, teslaMutation>>
    \/ \E code \in Codes :
          /\ ListVehicleRejects(code)
          /\ UNCHANGED <<core, maint, tibber, teslaMutation>>
    \/ QueryInvalidToken /\ UNCHANGED <<core, maint, tibber, teslaMutation>>
    \/ QueryInvalidTokenVehicle
          /\ UNCHANGED <<core, maint, tibber, teslaMutation>>
    \/ QuerySettled /\ UNCHANGED <<core, maint, tibber, teslaMutation>>

SpecTesla == InitTesla /\ [][NextTesla]_vars

\* C27: a maintainToken call whose refresh yields no new token returns the
\* old token and starts no store update; one whose refresh yields a new token
\* returns it and starts validToken, after which the services that held the
\* old refresh token store the new token without invalid_token and none of
\* their vehicles carries invalid_token; one whose refresh throws fails with
\* INVALID_TOKEN, returns no token and starts invalidToken for the old token
MaintainTokenOutcomes ==
    /\ (mpc = "returned" /\ result = <<oldToken>>) => issued = {}
    /\ (mpc = "returned" /\ result # <<oldToken>>) =>
           issued = {ValidToken(oldToken.refresh_token, result[1])}
    /\ mpc = "INVALID_TOKEN" =>
           /\ result = Null
           /\ issued = {InvalidToken(oldToken)}
    /\ stale = {}

\* service_data carries invalid_token, or has no token
FlaggedOrTokenless(data) == data.invalid_token \/ data.token = Null

\* the query has made no request for the service and has nothing from it
Untouched(service_uuid) ==
    /\ service_uuid \notin asked
    /\ service_uuid \notin listed
    /\ \A k \in DOMAIN pushed : pushed[k].service_uuid # service_uuid
    /\ \A k \in DOMAIN vehicles : vehicles[k].service_uuid # <<service_uuid>>

\* the services the query read as flagged or without a token are untouched
SkippedUntouched ==
    \A i \in DOMAIN serviceList :
        FlaggedOrTokenless(serviceList[i].service_data) =>
            Untouched(serviceList[i].service_uuid)

\* a query that starts reads the flag of every service flagged in the store
ReadsFlags ==
    (qpc = "idle" /\ qpc' = "getVehicles") =>
        \A i \in DOMAIN serviceList' :
            service_data[serviceList'[i].service_uuid].invalid_token =>
                serviceList'[i].service_data.invalid_token

\* a flag leaves the store only in a step that stores another token
FlagStays ==
    \A s \in DOMAIN service_data :
        (service_data[s].invalid_token /\ ~service_data'[s].invalid_token) =>
            service_data'[s].token # service_data[s].token

\* C28: in the query Vehicles a service whose service_data carries
\* invalid_token, or has no token, is skipped: the query asks no token
\* refresh and no vehicle list for it and returns no vehicle of it; and a
\* service flagged invalid keeps its flag, which every query that starts
\* later reads, until a new token is stored for it
InvalidSkipped == [][SkippedUntouched' /\ ReadsFlags /\ FlagStays]_vars

\* a query has returned vehicles of one service and has skipped the other,
\* which carries invalid_token and a token
InvalidSkippedWitness ==
    /\ qpc = "done"
    /\ vehicles # << >>
    /\ \E i \in DOMAIN serviceList :
          /\ serviceList[i].service_data.invalid_token
          /\ serviceList[i].service_data.token # Null
          /\ Untouched(serviceList[i].service_uuid)

\* C29: when the query Vehicles returns, every service whose vehicle-list
\* request failed with code 401 carries invalid_token in the store, also
\* when the refused token came from maintainToken in this query (a service
\* for which another token than the refused one has been stored since is not
\* counted), and the lists of the other services are returned
UnauthorizedFlagged ==
    qpc = "done" =>
        /\ \A u \in unauthorized :
               \/ service_data[u.service_uuid].invalid_token
               \/ service_data[u.service_uuid].token # <<u.token>>
        /\ Len(vehicles) >= Len(pushed)

\* the services, in the order of serviceList, whose pushed list has the vin
ListedBy(vin) ==
    {k \in DOMAIN pushed : \E i \in DOMAIN pushed[k].list : pushed[k].list[i] = vin}

\* the first service that listed the vin
FirstListedBy(vin) ==
    pushed[CHOOSE k \in ListedBy(vin) : \A j \in ListedBy(vin) : k <= j].service_uuid

====
